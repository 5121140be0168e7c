------------------------ MODULE MessageSchedulerProofs ------------------------
(***************************************************************************)
(* Type correctness of the scheduler, and that strict attribution and debt *)
(* accounting hold for any set of requests, keys and budgets.              *)
(***************************************************************************)
EXTENDS MessageScheduler, TLAPS

\* The counters and handler of the request c that is current, if any.
Shape(c, a, l, f, h) ==
    /\ h \in {NoReq, c}
    /\ c = NoReq => l.fresh = 0 /\ ~l.half
    /\ l.fresh > 0 \/ (f # NoFrame /\ l.half) => c \in Req
    /\ f # NoFrame /\ l.half => f = KeyOf(c)
    /\ h # NoReq => ~Silent(h)

\* What the requests that are over left on the wire is owed.
Covered(l, f, k) == Late(l, f, k) <= Debt(l, k)

(***************************************************************************)
(* The ledger for one tracked key.  A best-effort request shares its key's *)
(* debt with earlier requests.  A strict one is kept apart from them: it   *)
(* started without debt, or the first reply is refused while there is any, *)
(* so once its handler is gone there is none.                              *)
(***************************************************************************)
Balanced(c, a, l, f, h, k) ==
    IF c = NoReq THEN Covered(l, f, k)
    ELSE IF KeyOf(c) # k THEN Covered(l, f, k)
    ELSE IF ~Strict(c)
         THEN Late(l, f, k) + Fresh(l, f) <= Debt(l, k) + a.sent - a.matched
         ELSE /\ Covered(l, f, k)
              /\ Fresh(l, f) <= a.sent - a.matched
              /\ h = NoReq \/ kind[c].policy = "failWhenAmbiguous" => Debt(l, k) = 0

\* What finishing a request needs: debt and its own surplus cover everything.
Solvent(c, a, l, f) ==
    \A k \in TrackedKeys :
        IF KeyOf(c) # k THEN Covered(l, f, k)
        ELSE Late(l, f, k) + Fresh(l, f) <= Debt(l, k) + a.sent - a.matched

LedgerInv ==
    /\ Shape(current, acct, ledger, frame, handler)
    /\ \A k \in TrackedKeys : Balanced(current, acct, ledger, frame, handler, k)

Control ==
    /\ current = NoReq <=> mode = "idle"
    /\ timeout \/ retry => current # NoReq
    /\ current = NoReq => acct = NoAcct
    /\ strictActive = IF current # NoReq /\ Strict(current) THEN current ELSE NoReq


LedgerType == [fresh : Nat, half : BOOLEAN, late : [Key -> Nat],
               strict : [Key -> Nat], best : [Key -> Nat]]
AcctType == [attempts : Nat, recoveries : 0..1, sent : Nat, matched : Nat]

\* The part of the invariant that finishing and sending a request touch
TypeCore ==
    /\ mode \in {"idle", "sending", "waiting"}
    /\ current \in Req \cup {NoReq} /\ handler \in Req \cup {NoReq}
    /\ strictActive \in Req \cup {NoReq}
    /\ pace \in BOOLEAN /\ retry \in BOOLEAN /\ timeout \in BOOLEAN
    /\ acct \in AcctType /\ ledger \in LedgerType
    /\ outcome \in [Req -> Final \cup {"open"}]

TypeRest ==
    /\ queue \in Seq(Req) /\ orphans \in SUBSET Req
    /\ frame \in Key \cup {NoFrame}
    /\ listening \in BOOLEAN /\ open \in BOOLEAN /\ streak \in 0..(Recovery - 1)
    /\ kind \in [Req -> Kind]
    /\ call \in [Req -> {"none", "submitted", "cancelled"}]

Core == TypeCore /\ Control /\ LedgerInv /\ StrictAttribution

IInv == TypeRest /\ Core

-----------------------------------------------------------------------------
(* Facts about keys and requests *)

(***************************************************************************)
(* A tracked key and a reply match exactly when the reply answers that     *)
(* key: neither leniency for enum strings nor SD-card errors, the two ways *)
(* a reply can match foreign keys in request_key.dart, concerns them.      *)
(***************************************************************************)
LEMMA TrackedKeysAreExact ==
    ASSUME NEW h \in Key, NEW k \in Key, NEW m \in Replies(k),
           h \in TrackedKeys \/ k \in TrackedKeys
    PROVE  /\ MatchesStrict(h, m) <=> h = k
           /\ Matches(h, m) <=> h = k
           /\ k \in TrackedKeys => ~m.sdError
<1> USE AbsentAssumption
<1>1. CASE k \in TrackedKeys
  <2>1. m = [addr |-> k, sdError |-> FALSE]
    BY <1>1 DEF Replies, TrackedKeys, AlgorithmKeys, MemoryKeys, Address
  <2>2. CASE h \in TrackedKeys
    BY <1>1, <2>1, <2>2 DEF MatchesStrict, Matches, Agrees, MatchesSdCardOperation,
       TrackedKeys, AlgorithmKeys, MemoryKeys, Address
  <2>3. CASE h \notin TrackedKeys
    BY <1>1, <2>1, <2>3 DEF MatchesStrict, Matches, Key, PagesKeys, ValueKeys,
       EnumKeys, SdKeys, UntypedKeys, TrackedKeys, AlgorithmKeys, MemoryKeys, Address
  <2> QED BY <2>1, <2>2, <2>3
<1>2. CASE k \notin TrackedKeys
  <2>1. m.addr.type = k.type
    BY DEF Replies, Key, PagesKeys, ValueKeys, EnumKeys, SdKeys, UntypedKeys,
       AlgorithmKeys, MemoryKeys, Address
  <2>2. k.type # h.type
    BY <1>2 DEF Key, PagesKeys, ValueKeys, EnumKeys, SdKeys, UntypedKeys,
       TrackedKeys, AlgorithmKeys, MemoryKeys, Address
  <2> QED BY <1>2, <2>1, <2>2 DEF MatchesStrict, Matches
<1> QED BY <1>1, <1>2

\* What KindAssumption says of a request.
LEMMA KindFacts ==
    ASSUME kind \in [Req -> Kind], NEW r \in Req
    PROVE  /\ KeyOf(r) \in Key
           /\ kind[r].retries \in Nat
           /\ KeyOf(r) \in TrackedKeys => Tracked(r) /\ ~Silent(r)
           /\ Strict(r) => KeyOf(r) \in TrackedKeys
           /\ Strict(r) => kind[r].policy \in {"failWhenAmbiguous", "rejectAmbiguousResponse"}
           /\ kind[r].expect = "none" => Silent(r)
<1>1. kind[r] \in Kind /\ kind[r] \in KindType
  BY KindAssumption
<1>2. Strict(r) => kind[r].policy \in {"failWhenAmbiguous", "rejectAmbiguousResponse"}
  BY <1>1 DEF Strict, KindType, Policy
<1> QED
  BY <1>1, <1>2, KindAssumption
  DEF KeyOf, Tracked, Silent, Strict, KindType, TrackedKeys

-----------------------------------------------------------------------------
(* Facts about the ledger *)

LEMMA FoldFields ==
    ASSUME kind \in [Req -> Kind], NEW r \in Req,
           NEW a \in AcctType, NEW l \in LedgerType
    PROVE  LET n == Fold(r, a, l) IN
           /\ n \in LedgerType
           /\ n.fresh = 0 /\ n.half = FALSE
           /\ \A k \in Key :
                /\ n.late[k] = l.late[k] + (IF k = KeyOf(r) THEN l.fresh ELSE 0)
                /\ k # KeyOf(r) => Debt(n, k) = Debt(l, k)
                /\ Tracked(r) /\ k = KeyOf(r) =>
                     /\ Debt(n, k) >= Debt(l, k)
                     /\ Debt(n, k) >= Debt(l, k) + a.sent - a.matched
<1> DEFINE owed == IF Tracked(r) /\ a.sent > a.matched THEN a.sent - a.matched ELSE 0
<1>1. owed \in Nat /\ KeyOf(r) \in Key
  BY KindFacts DEF AcctType
<1> HIDE DEF owed
<1> DEFINE q == KeyOf(r)
           n == Fold(r, a, l)
<1>2. /\ l.fresh \in Nat /\ l.late \in [Key -> Nat]
      /\ l.strict \in [Key -> Nat] /\ l.best \in [Key -> Nat]
  BY DEF LedgerType
<1>3. /\ n.fresh = 0 /\ n.half = FALSE
      /\ n.late = [l.late EXCEPT ![q] = @ + l.fresh]
      /\ n.strict = IF Strict(r) THEN [l.strict EXCEPT ![q] = @ + owed] ELSE l.strict
      /\ n.best = IF Strict(r) THEN l.best ELSE [l.best EXCEPT ![q] = @ + owed]
      /\ n = [fresh |-> 0, half |-> FALSE, late |-> n.late,
              strict |-> n.strict, best |-> n.best]
  BY DEF Fold, owed
<1> HIDE DEF n
<1>4. n.late \in [Key -> Nat] /\ n.strict \in [Key -> Nat] /\ n.best \in [Key -> Nat]
  BY <1>1, <1>2, <1>3
<1>5. n \in LedgerType
  <2>1. 0 \in Nat /\ FALSE \in BOOLEAN
    OBVIOUS
  <2> QED BY <1>3, <1>4, <2>1, Zenon DEF LedgerType
<1>6. ASSUME NEW k \in Key
      PROVE  /\ n.late[k] = l.late[k] + (IF k = q THEN l.fresh ELSE 0)
             /\ k # q => Debt(n, k) = Debt(l, k)
             /\ k = q => Debt(n, k) = Debt(l, k) + owed
  BY <1>1, <1>2, <1>3 DEF Debt
<1>7. Tracked(r) => owed >= 0 /\ owed >= a.sent - a.matched
  BY DEF owed, AcctType
<1>8. \A k \in Key : Debt(l, k) \in Nat
  BY DEF Debt, LedgerType
<1>9. \A k \in Key : Tracked(r) /\ k = KeyOf(r) =>
                     /\ Debt(n, k) >= Debt(l, k)
                     /\ Debt(n, k) >= Debt(l, k) + a.sent - a.matched
  BY <1>1, <1>6, <1>7, <1>8 DEF AcctType
<1> QED BY <1>3, <1>5, <1>6, <1>9 DEF n

LEMMA LedgerNumbers ==
    ASSUME NEW l \in LedgerType, NEW f, NEW k \in Key
    PROVE  /\ l.fresh \in Nat /\ l.late[k] \in Nat /\ l.strict[k] \in Nat /\ l.best[k] \in Nat
           /\ Debt(l, k) \in Nat /\ Late(l, f, k) \in Nat /\ Fresh(l, f) \in Nat
           /\ l.late[k] <= Late(l, f, k) /\ l.fresh <= Fresh(l, f)
BY DEF LedgerType, Debt, Late, Fresh

LEMMA TrackedSubset == TrackedKeys \subseteq Key
BY DEF TrackedKeys, Key

\* A half-received own frame answers the request that is current.
FrameOf(r, l, f) == f # NoFrame /\ l.half => f = KeyOf(r)

\* Finishing a solvent request leaves every tracked key covered.
LEMMA FoldCovers ==
    ASSUME kind \in [Req -> Kind], NEW r \in Req, NEW a \in AcctType,
           NEW l \in LedgerType, NEW f \in Key \cup {NoFrame},
           Solvent(r, a, l, f), FrameOf(r, l, f), NEW k \in TrackedKeys
    PROVE  Covered(Fold(r, a, l), f, k)
<1> DEFINE n == Fold(r, a, l)
<1>1. k \in Key /\ NoFrame \notin Key
  BY TrackedSubset, ReqAssumption
<1>2. n \in LedgerType /\ n.half = FALSE
      /\ n.late[k] = l.late[k] + (IF k = KeyOf(r) THEN l.fresh ELSE 0)
      /\ (k # KeyOf(r) => Debt(n, k) = Debt(l, k))
      /\ (Tracked(r) /\ k = KeyOf(r) => Debt(n, k) >= Debt(l, k) + a.sent - a.matched)
  BY <1>1, FoldFields
<1> HIDE DEF n
<1>3. l.fresh \in Nat /\ l.late[k] \in Nat /\ Debt(l, k) \in Nat /\ Debt(n, k) \in Nat
  BY <1>1, <1>2, LedgerNumbers
<1>4. CASE k # KeyOf(r)
  <2>1. Late(l, f, k) <= Debt(l, k)
    BY <1>4 DEF Solvent, Covered
  <2>2. Late(n, f, k) = Late(l, f, k)
    BY <1>1, <1>2, <1>3, <1>4 DEF Late, FrameOf
  <2> QED BY <1>2, <1>4, <2>1, <2>2 DEF Covered, n
<1>5. CASE k = KeyOf(r)
  <2>1. Late(l, f, k) + Fresh(l, f) <= Debt(l, k) + a.sent - a.matched
    BY <1>5 DEF Solvent
  <2>2. Late(n, f, k) <= Late(l, f, k) + Fresh(l, f)
    BY <1>1, <1>2, <1>3, <1>5 DEF Late, Fresh
  <2>3. Debt(n, k) >= Debt(l, k) + a.sent - a.matched
    BY <1>2, <1>5, KindFacts
  <2>4. /\ Late(l, f, k) \in Nat /\ Fresh(l, f) \in Nat /\ Late(n, f, k) \in Nat
        /\ a.sent \in Nat /\ a.matched \in Nat
    BY <1>1, <1>2, LedgerNumbers DEF AcctType
  <2> QED BY <1>3, <2>1, <2>2, <2>3, <2>4 DEF Covered, n
<1> QED BY <1>4, <1>5

-----------------------------------------------------------------------------
(* The pieces handlers are made of preserve the invariant *)

LEMMA FinishCore ==
    ASSUME TypeRest', kind' = kind, TypeCore, StrictAttribution,
           NEW r \in Req, NEW a \in AcctType, NEW l \in LedgerType, NEW out \in Final,
           out = "stale" => ~Strict(r), strictActive \in {NoReq, r},
           Solvent(r, a, l, frame'), FrameOf(r, l, frame'),
           handler' = NoReq, Finish(r, a, l, out)
    PROVE  Core'
<1>1. kind \in [Req -> Kind] /\ frame' \in Key \cup {NoFrame}
  BY DEF TypeRest
<1>2. TypeCore'
  <2>1. ledger' \in LedgerType
    BY <1>1, FoldFields DEF Finish
  <2>2. outcome' \in [Req -> Final \cup {"open"}]
    BY DEF Finish, TypeCore
  <2>3. acct' \in AcctType
    BY DEF Finish, NoAcct, AcctType
  <2>4. pace' \in BOOLEAN /\ timeout' \in BOOLEAN /\ retry' \in BOOLEAN
    BY DEF Finish, Paced, PaceLeft
  <2> QED BY <2>1, <2>2, <2>3, <2>4 DEF Finish, TypeCore
<1>3. Control'
  BY DEF Control, Finish
<1>4. LedgerInv'
  <2>1. ledger'.fresh = 0 /\ ledger'.half = FALSE /\ current' = NoReq
    BY <1>1, FoldFields DEF Finish
  <2>2. Shape(current, acct, ledger, frame, handler)'
    BY <2>1 DEF Shape
  <2>3. ASSUME NEW k \in TrackedKeys
        PROVE  Balanced(current, acct, ledger, frame, handler, k)'
    <3>1. Covered(ledger', frame', k)
      BY <1>1, FoldCovers DEF Finish
    <3> QED BY <2>1, <3>1 DEF Balanced, Covered, Late, Debt
  <2> QED BY <2>2, <2>3 DEF LedgerInv
<1>5. StrictAttribution'
  BY DEF StrictAttribution, Finish, TypeCore, Strict
<1> QED BY <1>2, <1>3, <1>4, <1>5 DEF Core

(***************************************************************************)
(* What sending r needs: as Balanced, but a strict request that has not    *)
(* begun is still to pass the tracker, and a resent one has its handler    *)
(* registered again.                                                       *)
(***************************************************************************)
Ready(r, a, l, f) ==
    \A k \in TrackedKeys :
        IF KeyOf(r) # k THEN Covered(l, f, k)
        ELSE IF ~Strict(r)
             THEN Late(l, f, k) + Fresh(l, f) <= Debt(l, k) + a.sent - a.matched
             ELSE /\ Covered(l, f, k)
                  /\ Fresh(l, f) <= a.sent - a.matched
                  /\ strictActive = r /\ kind[r].policy = "failWhenAmbiguous"
                       => Debt(l, k) = 0

LEMMA ReadyIsSolvent ==
    ASSUME kind \in [Req -> Kind], NEW r \in Req, NEW a \in AcctType,
           NEW l \in LedgerType, NEW f, Ready(r, a, l, f)
    PROVE  Solvent(r, a, l, f)
<1>1. ASSUME NEW k \in TrackedKeys, KeyOf(r) = k
      PROVE  Late(l, f, k) + Fresh(l, f) <= Debt(l, k) + a.sent - a.matched
  <2>1. /\ Late(l, f, k) \in Nat /\ Fresh(l, f) \in Nat /\ Debt(l, k) \in Nat
        /\ a.sent \in Nat /\ a.matched \in Nat
    BY TrackedSubset, LedgerNumbers DEF AcctType
  <2> QED BY <1>1, <2>1 DEF Ready, Covered
<1> QED BY <1>1 DEF Ready, Solvent

LEMMA SendCore ==
    ASSUME TypeRest', kind' = kind, TypeCore, StrictAttribution,
           NEW r \in Req, NEW a \in AcctType, NEW l \in LedgerType,
           strictActive = NoReq \/ (strictActive = r /\ Strict(r)),
           handler \in {NoReq, r}, handler = r => ~Silent(r),
           Strict(r) /\ strictActive = NoReq => handler = NoReq,
           Ready(r, a, l, frame'), FrameOf(r, l, frame'), Send(r, a, l)
    PROVE  Core'
<1>1. kind \in [Req -> Kind] /\ frame' \in Key \cup {NoFrame}
  BY DEF TypeRest
<1>2. Solvent(r, a, l, frame')
  BY <1>1, ReadyIsSolvent
<1>3. r # NoReq
  BY ReqAssumption
<1>4. ASSUME NEW out \in {"ambiguous", "null", "failed"}, Finish(r, a, l, out), handler' = NoReq
      PROVE  Core'
  <2>1. out \in Final /\ out # "stale"
    BY DEF Final
  <2> QED BY <1>2, <1>4, <2>1, FinishCore
\* while r stays current only the sent counter and its own replies change
<1>5. ASSUME Stay(r), mode' \in {"waiting", "sending"},
             retry' \in BOOLEAN, timeout' \in BOOLEAN,
             handler' = Registered(r),
             strictActive' = (IF Strict(r) THEN r ELSE strictActive),
             acct' \in AcctType, acct'.matched = a.matched,
             ledger' \in LedgerType, ledger'.half = l.half,
             ledger'.late = l.late, ledger'.strict = l.strict, ledger'.best = l.best,
             Tracked(r) => ledger'.fresh - l.fresh = acct'.sent - a.sent,
             ~Refused(r, l)
      PROVE  Core'
  <2>3. current' = r /\ handler' \in {NoReq, r} /\ (handler' # NoReq => ~Silent(r))
    BY <1>5 DEF Stay, Registered
  <2>4. TypeCore'
    BY <1>5, <2>3 DEF TypeCore, Stay, PaceLeft
  <2>5. Control'
    BY <1>3, <1>5, <2>3 DEF Control, Strict
  <2>6. Shape(current, acct, ledger, frame, handler)'
    BY <1>3, <1>5, <2>3 DEF Shape, FrameOf, KeyOf, Silent
  <2>7. ASSUME NEW k \in TrackedKeys
        PROVE  Balanced(current, acct, ledger, frame, handler, k)'
    <3>1. /\ Late(ledger', frame', k) = Late(l, frame', k)
          /\ Debt(ledger', k) = Debt(l, k)
          /\ Fresh(ledger', frame') = Fresh(l, frame') + (ledger'.fresh - l.fresh)
      BY <1>5, TrackedSubset, LedgerNumbers DEF Late, Debt, Fresh
    <3>2. CASE KeyOf(r) # k
      BY <1>3, <2>3, <3>1, <3>2 DEF Balanced, Ready, Covered, KeyOf
    <3>3. CASE KeyOf(r) = k
      <4>1. Tracked(r) /\ ~Silent(r)
        BY <1>1, <3>3, KindFacts
      <4>2. /\ Late(l, frame', k) \in Nat /\ Fresh(l, frame') \in Nat /\ Debt(l, k) \in Nat
            /\ a.sent \in Nat /\ a.matched \in Nat /\ acct'.sent \in Nat
            /\ l.fresh \in Nat /\ ledger'.fresh \in Nat
            /\ Fresh(ledger', frame') = Fresh(l, frame') + acct'.sent - a.sent
        BY <1>5, <3>1, <4>1, TrackedSubset, LedgerNumbers DEF AcctType
      <4>3. CASE ~Strict(r)
        BY <1>3, <1>5, <2>3, <3>1, <3>3, <4>2, <4>3 DEF Balanced, Ready, KeyOf, Strict
      <4>4. CASE Strict(r)
        <5>1. Covered(l, frame', k) /\ Fresh(l, frame') <= a.sent - a.matched
          BY <3>3, <4>4 DEF Ready
        <5>2. handler' = r
          BY <1>5, <4>1 DEF Registered
        <5>3. kind[r].policy = "failWhenAmbiguous" => Debt(l, k) = 0
          <6>1. CASE strictActive = r
            BY <3>3, <4>4, <6>1 DEF Ready
          <6>2. CASE strictActive # r
            BY <1>5, <3>3, <4>2, <4>4, <6>2 DEF Refused
          <6> QED BY <6>1, <6>2
        <5> QED BY <1>3, <1>5, <2>3, <3>1, <3>3, <4>2, <4>4, <5>1, <5>2, <5>3
                DEF Balanced, Covered, KeyOf, Strict
      <4> QED BY <4>3, <4>4
    <3> QED BY <3>2, <3>3
  <2>8. StrictAttribution'
    BY <1>5 DEF StrictAttribution, Stay, Strict
  <2> QED BY <2>4, <2>5, <2>6, <2>7, <2>8 DEF Core, LedgerInv
<1>6. CASE Refused(r, l)
  <2>1. Finish(r, a, l, "ambiguous") /\ handler' = handler
    BY <1>6 DEF Send
  <2>2. handler = NoReq
    BY <1>6, <1>3 DEF Refused
  <2> QED BY <1>4, <2>1, <2>2
<1>7. CASE ~Refused(r, l)
  <2>1. ASSUME NEW n \in Tries(r, a), Transmit(r, a, l, n)
        PROVE  Core'
    <3>1. CASE kind[r].expect = "none"
      <4>1. handler = NoReq
        BY <1>1, <3>1, KindFacts
      <4> QED BY <1>4, <2>1, <3>1, <4>1 DEF Transmit
    <3>2. CASE kind[r].expect # "none"
      <4>1. n \in Nat
        BY <1>1, KindFacts DEF Tries, LastTry, AcctType
      <4>2. Counted(r) \in 0..1 /\ (Tracked(r) => Counted(r) = 1)
        BY DEF Counted
      <4>3. /\ Stay(r) /\ mode' = "waiting" /\ retry' = FALSE /\ timeout' = TRUE
            /\ handler' = Registered(r)
            /\ strictActive' = (IF Strict(r) THEN r ELSE strictActive)
            /\ acct' = [a EXCEPT !.attempts = n, !.sent = @ + Counted(r)]
            /\ ledger' = [l EXCEPT !.fresh = @ + 1]
        BY <2>1, <3>2 DEF Transmit
      <4>4. /\ acct' \in AcctType /\ acct'.matched = a.matched
            /\ acct'.sent = a.sent + Counted(r)
        <5>1. a.sent + Counted(r) \in Nat
          BY <4>2 DEF AcctType
        <5>2. acct' = [attempts |-> n, recoveries |-> a.recoveries,
                       sent |-> a.sent + Counted(r), matched |-> a.matched]
          BY <4>3 DEF AcctType
        <5> QED BY <4>1, <5>1, <5>2 DEF AcctType
      <4>5. /\ ledger' \in LedgerType /\ ledger'.fresh = l.fresh + 1 /\ ledger'.half = l.half
            /\ ledger'.late = l.late /\ ledger'.strict = l.strict /\ ledger'.best = l.best
        BY <4>3 DEF LedgerType
      <4>6. Tracked(r) => ledger'.fresh - l.fresh = acct'.sent - a.sent
        BY <4>2, <4>4, <4>5 DEF AcctType, LedgerType
      <4> QED BY <1>5, <1>7, <4>3, <4>4, <4>5, <4>6
    <3> QED BY <3>1, <3>2
  <2>2. ASSUME SendFails(r, a, l)
        PROVE  Core'
    <3>1. CASE kind[r].delayed /\ a.attempts + 1 < kind[r].retries
      <4>1. /\ Stay(r) /\ mode' = "sending" /\ retry' = TRUE /\ timeout' = timeout
            /\ handler' = Registered(r)
            /\ strictActive' = (IF Strict(r) THEN r ELSE strictActive)
            /\ acct' = [a EXCEPT !.attempts = @ + 1] /\ ledger' = l
        BY <2>2, <3>1 DEF SendFails
      <4>2. acct' \in AcctType /\ acct'.matched = a.matched /\ acct'.sent = a.sent
        BY <4>1 DEF AcctType
      <4>3. Tracked(r) => ledger'.fresh - l.fresh = acct'.sent - a.sent
        BY <4>1, <4>2 DEF LedgerType, AcctType
      <4>4. timeout' \in BOOLEAN
        BY <4>1 DEF TypeCore
      <4> QED BY <1>5, <1>7, <4>1, <4>2, <4>3, <4>4
    <3>2. CASE ~(kind[r].delayed /\ a.attempts + 1 < kind[r].retries)
      BY <1>4, <2>2, <3>2 DEF SendFails
    <3> QED BY <3>1, <3>2
  <2> QED BY <1>7, <2>1, <2>2 DEF Send
<1> QED BY <1>6, <1>7

LEMMA ArmRetryCore ==
    ASSUME TypeRest', kind' = kind, TypeCore, StrictAttribution,
           NEW r \in Req, NEW a \in AcctType, NEW l \in LedgerType,
           strictActive = IF Strict(r) THEN r ELSE NoReq,
           handler' \in {NoReq, r}, handler' = r => ~Silent(r),
           \A k \in TrackedKeys : Balanced(r, a, l, frame', handler', k),
           FrameOf(r, l, frame'), ArmRetry(r, a, l)
    PROVE  Core'
<1>1. r # NoReq
  BY ReqAssumption
<1>2. /\ current' = r /\ acct' = a /\ ledger' = l /\ strictActive' = strictActive
      /\ mode' = "sending" /\ retry' = TRUE /\ timeout' = FALSE
      /\ pace' = PaceLeft /\ outcome' = outcome
  BY DEF ArmRetry, Stay
<1>3. TypeCore'
  BY <1>2 DEF TypeCore, PaceLeft
<1>4. Control'
  BY <1>1, <1>2 DEF Control, Strict
<1>5. Shape(current, acct, ledger, frame, handler)'
  BY <1>1, <1>2 DEF Shape, FrameOf, KeyOf, Silent
<1>6. ASSUME NEW k \in TrackedKeys
      PROVE  Balanced(current, acct, ledger, frame, handler, k)'
  BY <1>2 DEF Balanced, Covered, Late, Fresh, Debt, KeyOf, Strict
<1>7. StrictAttribution'
  BY <1>2 DEF StrictAttribution, Strict
<1> QED BY <1>3, <1>4, <1>5, <1>6, <1>7 DEF Core, LedgerInv

\* A balanced ledger lets the current request be sent again, or be finished.
LEMMA BalancedIsReady ==
    ASSUME kind \in [Req -> Kind], NEW r \in Req, NEW a, NEW l, NEW f, NEW h,
           \A k \in TrackedKeys : Balanced(r, a, l, f, h, k)
    PROVE  Ready(r, a, l, f)
<1>1. r # NoReq
  BY ReqAssumption
<1> QED BY <1>1 DEF Balanced, Ready

LEMMA ResendCore ==
    ASSUME TypeRest', kind' = kind, TypeCore, StrictAttribution,
           NEW r \in Req, NEW a \in AcctType, NEW l \in LedgerType, NEW h \in {NoReq, r},
           strictActive = IF Strict(r) THEN r ELSE NoReq,
           handler \in {NoReq, r}, handler = r => ~Silent(r), h = r => ~Silent(r),
           \A k \in TrackedKeys : Balanced(r, a, l, frame', h, k),
           FrameOf(r, l, frame'), Resend(r, a, l), kind[r].delayed => handler' = h
    PROVE  Core'
<1>1. CASE kind[r].delayed
  BY <1>1, ArmRetryCore DEF Resend
<1>2. CASE ~kind[r].delayed
  <2>1. Ready(r, a, l, frame')
    BY BalancedIsReady DEF TypeRest
  <2>2. strictActive = NoReq \/ (strictActive = r /\ Strict(r))
    OBVIOUS
  <2>3. Strict(r) /\ strictActive = NoReq => handler = NoReq
    BY ReqAssumption
  <2> QED BY <1>2, <2>1, <2>2, <2>3, SendCore DEF Resend
<1> QED BY <1>1, <1>2

LEMMA ProcessNextCore ==
    ASSUME IInv, TypeRest', kind' = kind, frame' = frame,
           NEW q \in Seq(Req), ProcessNext(q)
    PROVE  Core'
<1>1. CASE mode = "idle" /\ q # <<>>
  <2>1. Head(q) \in Req /\ Send(Head(q), NoAcct, ledger)
    BY <1>1 DEF ProcessNext
  <2>2. /\ current = NoReq /\ handler = NoReq /\ strictActive = NoReq
        /\ ledger.fresh = 0 /\ ~ledger.half /\ ledger \in LedgerType /\ NoAcct \in AcctType
    BY <1>1 DEF IInv, Core, Control, LedgerInv, Shape, TypeCore, NoAcct, AcctType
  <2>3. Ready(Head(q), NoAcct, ledger, frame)
    <3>1. ASSUME NEW k \in TrackedKeys
          PROVE  /\ Covered(ledger, frame, k) /\ Fresh(ledger, frame) = 0
                 /\ Late(ledger, frame, k) \in Nat /\ Debt(ledger, k) \in Nat
      BY <2>2, TrackedSubset, LedgerNumbers DEF IInv, Core, LedgerInv, Balanced, Fresh
    <3> QED BY <2>1, <2>2, <3>1, ReqAssumption DEF Ready, NoAcct, Covered
  <2>4. FrameOf(Head(q), ledger, frame')
    BY <2>2 DEF FrameOf
  <2>5. handler = Head(q) => ~Silent(Head(q))
    BY <2>1, <2>2, ReqAssumption
  <2> QED BY <2>1, <2>2, <2>3, <2>4, <2>5, SendCore DEF IInv, Core
<1>2. CASE ~(mode = "idle" /\ q # <<>>)
  <2>1. UNCHANGED <<mode, current, handler, retry, timeout, acct,
                    strictActive, ledger, outcome, frame, kind>>
    BY <1>2 DEF ProcessNext
  <2>2. pace' \in BOOLEAN
    BY <1>2 DEF ProcessNext
  <2>3. TypeCore'
    BY <2>1, <2>2 DEF IInv, Core, TypeCore
  <2>4. Control'
    BY <2>1 DEF IInv, Core, Control, Strict
  <2>5. LedgerInv' /\ StrictAttribution'
    BY <2>1 DEF IInv, Core, LedgerInv, Shape, Balanced, Covered, Late, Fresh, Debt, KeyOf,
       Strict, Silent, StrictAttribution
  <2> QED BY <2>3, <2>4, <2>5 DEF Core
<1> QED BY <1>1, <1>2

\* What IInv says while r is current.
LEMMA CurrentFacts ==
    ASSUME IInv, current # NoReq
    PROVE  /\ current \in Req /\ kind \in [Req -> Kind]
           /\ strictActive = IF Strict(current) THEN current ELSE NoReq
           /\ handler \in {NoReq, current} /\ (handler = current => ~Silent(current))
           /\ acct \in AcctType /\ ledger \in LedgerType
           /\ FrameOf(current, ledger, frame)
           /\ \A k \in TrackedKeys : Balanced(current, acct, ledger, frame, handler, k)
BY DEF IInv, Core, TypeCore, TypeRest, Control, LedgerInv, Shape, FrameOf

LEMMA UnframedFields ==
    ASSUME NEW l \in LedgerType
    PROVE  /\ Unframed(l) \in LedgerType /\ Unframed(l).half = FALSE
           /\ Unframed(l).fresh = l.fresh /\ Unframed(l).late = l.late
           /\ Unframed(l).strict = l.strict /\ Unframed(l).best = l.best
BY DEF Unframed, LedgerType

\* Throwing the buffered frame away cannot unbalance a ledger.
LEMMA DropFrame ==
    ASSUME NEW c, NEW a \in AcctType, NEW l \in LedgerType, NEW f, NEW h,
           NEW k \in TrackedKeys, Balanced(c, a, l, f, h, k)
    PROVE  Balanced(c, a, Unframed(l), NoFrame, h, k)
<1> DEFINE u == Unframed(l)
<1>1. k \in Key /\ k # NoFrame
  BY TrackedSubset, ReqAssumption
<1>2. u \in LedgerType /\ Debt(u, k) = Debt(l, k)
      /\ Late(u, NoFrame, k) <= Late(l, f, k) /\ Fresh(u, NoFrame) <= Fresh(l, f)
  <2>1. /\ u \in LedgerType /\ u.half = FALSE /\ u.fresh = l.fresh /\ u.late = l.late
        /\ u.strict = l.strict /\ u.best = l.best
    BY UnframedFields
  <2>2. l.fresh \in Nat /\ l.late[k] \in Nat
    BY <1>1, LedgerNumbers
  <2> HIDE DEF u
  <2>3. Debt(u, k) = Debt(l, k)
    BY <2>1 DEF Debt
  <2>4. Late(u, NoFrame, k) = l.late[k] /\ Fresh(u, NoFrame) = l.fresh
    BY <1>1, <2>1, <2>2 DEF Late, Fresh
  <2> QED BY <1>1, <2>1, <2>3, <2>4, LedgerNumbers
<1>3. /\ Late(l, f, k) \in Nat /\ Fresh(l, f) \in Nat /\ Debt(l, k) \in Nat
      /\ Late(u, NoFrame, k) \in Nat /\ Fresh(u, NoFrame) \in Nat
      /\ a.sent \in Nat /\ a.matched \in Nat
  BY <1>1, <1>2, LedgerNumbers DEF AcctType
<1> QED BY <1>2, <1>3 DEF Balanced, Covered

-----------------------------------------------------------------------------
(* Incoming traffic *)

(***************************************************************************)
(* Balanced for key j while a message for key k, own or not, has left the  *)
(* wire and is not dealt with yet; the frame buffer is empty.              *)
(***************************************************************************)
InHand(l, k, own, j) ==
    LET late  == l.late[j] + (IF ~own /\ j = k THEN 1 ELSE 0)
        fresh == l.fresh + (IF own THEN 1 ELSE 0)
    IN  IF current = NoReq \/ KeyOf(current) # j THEN late <= Debt(l, j)
        ELSE IF ~Strict(current)
             THEN late + fresh <= Debt(l, j) + acct.sent - acct.matched
             ELSE /\ late <= Debt(l, j)
                  /\ fresh <= acct.sent - acct.matched
                  /\ handler = NoReq \/ kind[current].policy = "failWhenAmbiguous"
                       => Debt(l, j) = 0

Arrived(l, k, own) ==
    /\ l \in LedgerType /\ ~l.half
    /\ own => current # NoReq /\ KeyOf(current) = k
    /\ current = NoReq => l.fresh = 0
    /\ \A j \in TrackedKeys : InHand(l, k, own, j)

LEMMA UnframedNumbers ==
    ASSUME NEW l \in LedgerType, ~l.half, NEW k \in TrackedKeys
    PROVE  /\ Late(l, NoFrame, k) = l.late[k] /\ Fresh(l, NoFrame) = l.fresh
           /\ l.late[k] \in Nat /\ l.fresh \in Nat /\ Debt(l, k) \in Nat
<1>1. k \in Key /\ k # NoFrame
  BY TrackedSubset, ReqAssumption
<1>2. l.late[k] \in Nat /\ l.fresh \in Nat /\ Debt(l, k) \in Nat
  BY <1>1, LedgerNumbers
<1> QED BY <1>1, <1>2 DEF Late, Fresh

\* Removing one debt entry that matches a reply to a tracked key pays for it.
LEMMA SettledFields ==
    ASSUME NEW l \in LedgerType, NEW k \in Key, NEW m \in Replies(k),
           NEW best, NEW n \in Settled(m, l, best)
    PROVE  /\ n \in LedgerType /\ n.fresh = l.fresh /\ n.half = l.half /\ n.late = l.late
           /\ \A j \in TrackedKeys : Debt(n, j) = Debt(l, j) - (IF j = k THEN 1 ELSE 0)
           /\ k \in TrackedKeys => Debt(l, k) > 0
<1>1. PICK h \in Key :
        /\ MatchesStrict(h, m)
        /\ \/ l.strict[h] > 0 /\ n = [l EXCEPT !.strict[h] = @ - 1]
           \/ l.best[h] > 0 /\ n = [l EXCEPT !.best[h] = @ - 1]
  BY DEF Settled
<1>2. /\ l.strict \in [Key -> Nat] /\ l.best \in [Key -> Nat]
      /\ l.late \in [Key -> Nat] /\ l.fresh \in Nat
      /\ l.strict[h] \in Nat /\ l.best[h] \in Nat
  BY DEF LedgerType
<1>3. /\ n \in LedgerType /\ n.fresh = l.fresh /\ n.half = l.half /\ n.late = l.late
      /\ \/ /\ l.strict[h] > 0 /\ n.best = l.best
            /\ n.strict = [l.strict EXCEPT ![h] = @ - 1]
         \/ /\ l.best[h] > 0 /\ n.strict = l.strict
            /\ n.best = [l.best EXCEPT ![h] = @ - 1]
  <2>1. CASE l.strict[h] > 0 /\ n = [l EXCEPT !.strict[h] = @ - 1]
    <3>1. [l.strict EXCEPT ![h] = @ - 1] \in [Key -> Nat]
      BY <1>2, <2>1
    <3> QED BY <2>1, <3>1 DEF LedgerType
  <2>2. CASE l.best[h] > 0 /\ n = [l EXCEPT !.best[h] = @ - 1]
    <3>1. [l.best EXCEPT ![h] = @ - 1] \in [Key -> Nat]
      BY <1>2, <2>2
    <3> QED BY <2>2, <3>1 DEF LedgerType
  <2> QED BY <1>1, <2>1, <2>2
<1>4. \A j \in Key : Debt(n, j) = Debt(l, j) - (IF j = h THEN 1 ELSE 0)
  BY <1>2, <1>3 DEF Debt
<1>5. Debt(l, h) > 0
  BY <1>2, <1>3 DEF Debt
<1>6. h \in TrackedKeys \/ k \in TrackedKeys => h = k
  BY <1>1, TrackedKeysAreExact
<1>7. \A j \in TrackedKeys : j = h <=> j = k
  BY <1>6
<1> QED BY <1>3, <1>4, <1>5, <1>6, <1>7, TrackedSubset

\* The same for a ledger in the shape it has when a message is received.
LEMMA SettledShape ==
    ASSUME NEW l \in LedgerType, ~l.half, NEW k \in Key, NEW m \in Replies(k),
           NEW best, NEW n \in Settled(m, l, best)
    PROVE  /\ n \in LedgerType /\ n.fresh = l.fresh /\ ~n.half /\ n.late = l.late
           /\ \A j \in TrackedKeys : Debt(n, j) = Debt(l, j) - (IF j = k THEN 1 ELSE 0)
           /\ k \in TrackedKeys => Debt(l, k) > 0
<1>1. n.half = l.half
  BY SettledFields
<1> QED BY <1>1, SettledFields

\* _onResponseMatched: a strict request is only ever given its own reply.
LEMMA AnsweredCore ==
    ASSUME IInv, TypeRest', kind' = kind, frame' = NoFrame,
           NEW k \in Key, NEW m \in Replies(k), NEW own \in BOOLEAN, NEW l,
           Arrived(l, k, own), HandlerMatches(m), ~Ambiguous(m, l),
           Answered(handler, m, own, l)
    PROVE  Core'
<1> DEFINE r == handler
           a == [acct EXCEPT !.matched = @ + Counted(r)]
<1>1. /\ r = current /\ r \in Req /\ r # NoReq /\ ~Silent(r) /\ kind \in [Req -> Kind]
      /\ strictActive = IF Strict(r) THEN r ELSE NoReq
      /\ l \in LedgerType /\ ~l.half /\ acct \in AcctType
  <2>1. handler # NoReq
    BY DEF HandlerMatches
  <2>2. handler = current
    BY <2>1 DEF IInv, Core, LedgerInv, Shape
  <2> QED BY <2>1, <2>2, CurrentFacts DEF Arrived
<1>2. /\ a \in AcctType /\ a.sent = acct.sent /\ a.matched = acct.matched + Counted(r)
      /\ Counted(r) \in 0..1 /\ (Tracked(r) => Counted(r) = 1)
  <2>1. Counted(r) \in 0..1 /\ (Tracked(r) => Counted(r) = 1)
    BY DEF Counted
  <2>2. acct.matched + Counted(r) \in Nat
    BY <1>1, <2>1 DEF AcctType
  <2> QED BY <1>1, <2>1, <2>2 DEF AcctType
<1>3. KeyOf(r) \in Key /\ (KeyOf(r) \in TrackedKeys \/ k \in TrackedKeys => KeyOf(r) = k)
  <2>1. KeyOf(r) \in Key
    BY <1>1, KindFacts
  <2> QED BY <2>1, TrackedKeysAreExact DEF HandlerMatches
<1>4. Strict(r) => own /\ Debt(l, k) = 0
  <2> SUFFICES ASSUME Strict(r) PROVE own /\ Debt(l, k) = 0
    OBVIOUS
  <2>1. KeyOf(r) = k /\ k \in TrackedKeys
    BY <1>1, <1>3, KindFacts
  <2>2. ForStrict(m) /\ strictActive = r
    BY <1>1, <2>1, TrackedKeysAreExact DEF ForStrict
  <2>3. Debt(l, k) = 0
    <3>1. CASE kind[r].policy = "failWhenAmbiguous"
      BY <1>1, <2>1, <3>1 DEF Arrived, InHand
    <3>2. CASE kind[r].policy = "rejectAmbiguousResponse"
      <4>1. Settled(m, l, TRUE) = {}
        BY <2>2, <3>2 DEF Ambiguous
      <4>2. MatchesStrict(k, m) /\ k \in Key
        BY <2>1, TrackedKeysAreExact
      <4>3. ~(l.strict[k] > 0) /\ ~(l.best[k] > 0)
        BY <4>1, <4>2 DEF Settled
      <4> QED BY <1>1, <4>2, <4>3, LedgerNumbers DEF Debt
    <3> QED BY <1>1, <3>1, <3>2, KindFacts
  <2>4. l.late[k] \in Nat
    BY <1>1, <2>1, UnframedNumbers
  <2>5. l.late[k] + (IF ~own /\ k = k THEN 1 ELSE 0) <= Debt(l, k)
    BY <1>1, <2>1 DEF Arrived, InHand
  <2> QED BY <2>3, <2>4, <2>5
<1>5. ASSUME NEW j \in TrackedKeys
      PROVE  Balanced(r, a, l, NoFrame, NoReq, j)
  <2>1. /\ Late(l, NoFrame, j) = l.late[j] /\ Fresh(l, NoFrame) = l.fresh
        /\ l.late[j] \in Nat /\ l.fresh \in Nat /\ Debt(l, j) \in Nat
        /\ acct.sent \in Nat /\ acct.matched \in Nat
    BY <1>1, UnframedNumbers DEF AcctType
  <2>2. InHand(l, k, own, j)
    BY DEF Arrived
  <2>3. CASE KeyOf(r) # j
    <3>1. l.late[j] + (IF ~own /\ j = k THEN 1 ELSE 0) <= Debt(l, j)
      BY <1>1, <2>2, <2>3 DEF InHand
    <3> QED BY <1>1, <2>1, <2>3, <3>1 DEF Balanced, Covered
  <2>4. CASE KeyOf(r) = j
    <3>1. j = k /\ Tracked(r)
      BY <1>1, <1>3, <2>4, KindFacts
    <3> HIDE DEF a
    <3>2. CASE ~Strict(r)
      <4>1. l.late[j] + (IF ~own /\ j = k THEN 1 ELSE 0) + (l.fresh + (IF own THEN 1 ELSE 0))
              <= Debt(l, j) + acct.sent - acct.matched
        BY <1>1, <2>2, <2>4, <3>2 DEF InHand
      <4> QED BY <1>1, <1>2, <2>1, <2>4, <3>1, <3>2, <4>1 DEF Balanced
    <3>3. CASE Strict(r)
      <4>1. l.fresh + 1 <= acct.sent - acct.matched /\ l.late[j] <= Debt(l, j)
        BY <1>1, <1>4, <2>1, <2>2, <2>4, <3>3 DEF InHand
      <4> QED BY <1>1, <1>2, <1>4, <2>1, <2>4, <3>1, <3>3, <4>1 DEF Balanced, Covered
    <3> QED BY <3>2, <3>3
  <2> QED BY <2>3, <2>4
<1>6. Solvent(r, a, l, NoFrame)
  BY <1>1, <1>2, <1>5, BalancedIsReady, ReadyIsSolvent
<1>7. FrameOf(r, l, NoFrame)
  BY DEF FrameOf
<1>8. TypeCore /\ StrictAttribution
  BY DEF IInv, Core
<1>9. ASSUME NEW out \in Final, out = "stale" => ~own, Finish(r, a, l, out), handler' = NoReq
      PROVE  Core'
  <2>1. strictActive \in {NoReq, r}
    BY <1>1
  <2>2. out = "stale" => ~Strict(r)
    BY <1>4, <1>9
  <2> HIDE DEF a
  <2> QED BY <1>1, <1>2, <1>6, <1>7, <1>8, <1>9, <2>1, <2>2, FinishCore
<1>10. ASSUME Resend(r, a, l), kind[r].delayed => handler' = NoReq
       PROVE  Core'
  <2> HIDE DEF a
  <2> QED BY <1>1, <1>2, <1>5, <1>7, <1>8, <1>10, ResendCore
<1>11. \/ \E out \in {"failed", "null", IF own THEN "reply" ELSE "stale"} :
             Finish(r, a, l, out) /\ handler' = NoReq
       \/ Resend(r, a, l) /\ (kind[r].delayed => handler' = NoReq)
  BY DEF Answered
<1>12. \A out \in {"failed", "null", IF own THEN "reply" ELSE "stale"} :
          out \in Final /\ (out = "stale" => ~own)
  BY DEF Final
<1> HIDE DEF a, r
<1> QED BY <1>9, <1>10, <1>11, <1>12

LEMMA DispatchCore ==
    ASSUME IInv, TypeRest', kind' = kind, frame' = NoFrame,
           NEW k \in Key, NEW m \in Replies(k), NEW own \in BOOLEAN, NEW l,
           Arrived(l, k, own), Dispatch(m, own, l)
    PROVE  Core'
<1>1. l \in LedgerType /\ ~l.half /\ acct \in AcctType /\ kind \in [Req -> Kind]
      /\ current \in Req \cup {NoReq} /\ NoReq \notin Req
  BY ReqAssumption DEF Arrived, IInv, Core, TypeCore, TypeRest
<1>2. ASSUME NEW n \in LedgerType, n.fresh = l.fresh, ~n.half, ledger' = n,
             UNCHANGED <<machine, strictActive, outcome>>,
             \A j \in TrackedKeys : Balanced(current, acct, n, NoFrame, handler, j)
      PROVE  Core'
  <2>1. TypeCore'
    BY <1>2 DEF IInv, Core, TypeCore, machine
  <2>2. Control'
    BY <1>2 DEF IInv, Core, Control, machine, Strict
  <2>3. Shape(current, acct, ledger, frame, handler)'
    <3>1. handler \in {NoReq, current} /\ (handler # NoReq => ~Silent(handler))
          /\ (current = NoReq => n.fresh = 0)
      BY <1>2 DEF IInv, Core, LedgerInv, Shape, Arrived
    <3>2. n.fresh > 0 => current \in Req
      BY <1>1, <3>1
    <3> QED BY <1>2, <3>1, <3>2 DEF Shape, machine, Silent
  <2>4. ASSUME NEW j \in TrackedKeys
        PROVE  Balanced(current, acct, ledger, frame, handler, j)'
    BY <1>2 DEF Balanced, Covered, Late, Fresh, Debt, KeyOf, Strict, machine
  <2>5. StrictAttribution'
    BY <1>2 DEF IInv, Core, StrictAttribution, Strict
  <2> QED BY <2>1, <2>2, <2>3, <2>4, <2>5 DEF Core, LedgerInv
<1>3. CASE Ambiguous(m, l)
  <2>1. PICK n \in Settled(m, l, TRUE) : RejectCurrent(n) /\ handler' = NoReq
    BY <1>3 DEF Dispatch
  <2>2. /\ strictActive = current /\ current \in Req /\ Strict(current)
        /\ MatchesStrict(KeyOf(current), m)
    BY <1>1, <1>3 DEF Ambiguous, ForStrict, IInv, Core, Control
  <2>3. KeyOf(current) = k /\ k \in TrackedKeys
    BY <1>1, <2>2, KindFacts, TrackedKeysAreExact
  <2>4. /\ n \in LedgerType /\ n.fresh = l.fresh /\ ~n.half /\ n.late = l.late
        /\ \A j \in TrackedKeys : Debt(n, j) = Debt(l, j) - (IF j = k THEN 1 ELSE 0)
        /\ Debt(l, k) > 0
    <3>1. l \in LedgerType /\ ~l.half /\ n \in Settled(m, l, TRUE)
      BY <1>1, <2>1
    <3>2. /\ n \in LedgerType /\ n.fresh = l.fresh /\ ~n.half /\ n.late = l.late
          /\ \A j \in TrackedKeys : Debt(n, j) = Debt(l, j) - (IF j = k THEN 1 ELSE 0)
          /\ k \in TrackedKeys => Debt(l, k) > 0
      BY <3>1, SettledShape
    <3> QED BY <2>3, <3>2
  <2>5. handler # NoReq
    BY <1>1, <2>2, <2>3, <2>4 DEF Arrived, InHand
  <2>6. Solvent(current, acct, n, NoFrame)
    <3>1. ASSUME NEW j \in TrackedKeys, KeyOf(current) # j
          PROVE  Covered(n, NoFrame, j)
      <4>1. l.late[j] <= Debt(l, j)
        BY <1>1, <2>2, <2>3, <3>1, UnframedNumbers DEF Arrived, InHand
      <4>2. Late(n, NoFrame, j) = n.late[j] /\ n.late[j] = l.late[j]
        BY <2>4, UnframedNumbers
      <4>3. Debt(n, j) = Debt(l, j)
        <5>1. Debt(l, j) \in Nat /\ j # k
          BY <1>1, <2>3, <3>1, UnframedNumbers
        <5> QED BY <2>4, <5>1
      <4> QED BY <4>1, <4>2, <4>3 DEF Covered
    <3>2. Late(n, NoFrame, k) + Fresh(n, NoFrame) <= Debt(n, k) + acct.sent - acct.matched
      <4>1. /\ Late(n, NoFrame, k) = l.late[k] /\ Fresh(n, NoFrame) = l.fresh
            /\ Debt(n, k) = Debt(l, k) - 1
            /\ l.late[k] \in Nat /\ l.fresh \in Nat /\ Debt(l, k) \in Nat
            /\ acct.sent \in Nat /\ acct.matched \in Nat
        BY <1>1, <2>3, <2>4, UnframedNumbers DEF AcctType
      <4>2. /\ l.late[k] + (IF ~own THEN 1 ELSE 0) <= Debt(l, k)
            /\ l.fresh + (IF own THEN 1 ELSE 0) <= acct.sent - acct.matched
        BY <1>1, <2>2, <2>3 DEF Arrived, InHand
      <4> QED BY <4>1, <4>2
    <3> QED BY <2>3, <3>1, <3>2 DEF Solvent
  <2>7. FrameOf(current, n, NoFrame)
    BY DEF FrameOf
  <2>8. Finish(current, acct, n, "ambiguous")
    BY <2>1, <2>5 DEF RejectCurrent
  <2>9. "ambiguous" \in Final /\ TypeCore /\ StrictAttribution
    BY DEF Final, IInv, Core
  <2> QED BY <1>1, <2>1, <2>2, <2>4, <2>6, <2>7, <2>8, <2>9, FinishCore
<1>4. CASE ~Ambiguous(m, l) /\ Drains(m, l)
  <2>1. /\ ledger' \in Settled(m, l, ~HandlerMatches(m)) /\ ~ForStrict(m)
        /\ UNCHANGED <<machine, strictActive, outcome>>
    BY <1>4 DEF Dispatch, Drains
  <2> DEFINE n == ledger'
  <2>2. /\ n \in LedgerType /\ n.fresh = l.fresh /\ ~n.half /\ n.late = l.late
        /\ \A j \in TrackedKeys : Debt(n, j) = Debt(l, j) - (IF j = k THEN 1 ELSE 0)
    BY <1>1, <2>1, SettledShape
  <2>3. ASSUME NEW j \in TrackedKeys
        PROVE  Balanced(current, acct, n, NoFrame, handler, j)
    <3> HIDE DEF n
    <3>1. /\ Late(n, NoFrame, j) = l.late[j] /\ Fresh(n, NoFrame) = l.fresh
          /\ l.late[j] \in Nat /\ l.fresh \in Nat /\ Debt(l, j) \in Nat
          /\ Debt(n, j) = Debt(l, j) - (IF j = k THEN 1 ELSE 0)
          /\ acct.sent \in Nat /\ acct.matched \in Nat
      BY <1>1, <2>2, UnframedNumbers DEF AcctType
    <3>2. InHand(l, k, own, j)
      BY DEF Arrived
    <3>3. CASE current = NoReq \/ KeyOf(current) # j
      <4>1. own => j # k
        BY <3>3 DEF Arrived
      <4>2. l.late[j] + (IF ~own /\ j = k THEN 1 ELSE 0) <= Debt(l, j)
        BY <3>2, <3>3 DEF InHand
      <4> QED BY <3>1, <3>3, <4>1, <4>2 DEF Balanced, Covered
    <3>4. CASE current # NoReq /\ KeyOf(current) = j /\ ~Strict(current)
      <4>1. own => j = k
        BY <3>4 DEF Arrived
      <4>2. l.late[j] + (IF ~own /\ j = k THEN 1 ELSE 0) + (l.fresh + (IF own THEN 1 ELSE 0))
              <= Debt(l, j) + acct.sent - acct.matched
        BY <3>2, <3>4 DEF InHand
      <4> QED BY <3>1, <3>4, <4>1, <4>2 DEF Balanced
    <3>5. CASE current # NoReq /\ KeyOf(current) = j /\ Strict(current)
      <4>1. strictActive = current
        BY <3>5 DEF IInv, Core, Control
      <4>2. j # k
        <5>1. ~MatchesStrict(j, m)
          BY <2>1, <3>5, <4>1 DEF ForStrict
        <5> QED BY <5>1, TrackedKeysAreExact, TrackedSubset
      <4>3. ~own
        BY <3>5, <4>2 DEF Arrived
      <4> QED BY <3>1, <3>2, <3>5, <4>2, <4>3 DEF Balanced, Covered, InHand
    <3> QED BY <3>3, <3>4, <3>5
  <2> HIDE DEF n
  <2> QED BY <1>2, <2>1, <2>2, <2>3 DEF n
<1>5. CASE ~Ambiguous(m, l) /\ ~Drains(m, l) /\ HandlerMatches(m)
  <2>1. Answered(handler, m, own, l)
    BY <1>5 DEF Dispatch
  <2> QED BY <1>5, <2>1, AnsweredCore
<1>6. CASE ~Ambiguous(m, l) /\ ~Drains(m, l) /\ ~HandlerMatches(m)
  <2>1. ledger' = l /\ UNCHANGED <<machine, strictActive, outcome>>
    BY <1>6 DEF Dispatch
  <2>2. ASSUME NEW j \in TrackedKeys
        PROVE  Balanced(current, acct, l, NoFrame, handler, j)
    <3>1. /\ Late(l, NoFrame, j) = l.late[j] /\ Fresh(l, NoFrame) = l.fresh
          /\ l.late[j] \in Nat /\ l.fresh \in Nat /\ Debt(l, j) \in Nat
          /\ acct.sent \in Nat /\ acct.matched \in Nat
      BY <1>1, UnframedNumbers DEF AcctType
    <3>2. InHand(l, k, own, j)
      BY DEF Arrived
    <3> QED BY <3>1, <3>2 DEF InHand, Balanced, Covered
  <2> QED BY <1>1, <1>2, <2>1, <2>2
<1> QED BY <1>3, <1>4, <1>5, <1>6


\* A step that only lessens what is on the wire keeps the invariant.
LEMMA LessTraffic ==
    ASSUME IInv, UNCHANGED <<machine, strictActive, outcome, kind>>,
           ledger' \in LedgerType, Shape(current, acct, ledger', frame', handler),
           \A k \in TrackedKeys :
               /\ Debt(ledger', k) = Debt(ledger, k)
               /\ Late(ledger', frame', k) <= Late(ledger, frame, k)
               /\ Fresh(ledger', frame') <= Fresh(ledger, frame)
    PROVE  Core'
<1>1. TypeCore' /\ Control' /\ StrictAttribution'
  BY DEF IInv, Core, TypeCore, Control, StrictAttribution, Strict, machine
<1>2. Shape(current, acct, ledger, frame, handler)'
  BY DEF Shape, machine, KeyOf, Silent
<1>3. ASSUME NEW k \in TrackedKeys
      PROVE  Balanced(current, acct, ledger, frame, handler, k)'
  <2>1. /\ Late(ledger', frame', k) \in Nat /\ Fresh(ledger', frame') \in Nat
        /\ Late(ledger, frame, k) \in Nat /\ Fresh(ledger, frame) \in Nat
        /\ Debt(ledger, k) \in Nat /\ acct.sent \in Nat /\ acct.matched \in Nat
    BY TrackedSubset, LedgerNumbers DEF IInv, Core, TypeCore, AcctType
  <2>2. Balanced(current, acct, ledger, frame, handler, k)
    BY DEF IInv, Core, LedgerInv
  <2>3. Balanced(current, acct, ledger', frame', handler, k)
    BY <2>1, <2>2 DEF Balanced, Covered
  <2> QED BY <2>3 DEF Balanced, Covered, Late, Fresh, Debt, machine, KeyOf, Strict
<1> QED BY <1>1, <1>2, <1>3 DEF Core, LedgerInv

\* _dispatchSysEx
LEMMA ReceiveStep ==
    ASSUME IInv, UNCHANGED <<listening, open, kind, call>>, frame' = NoFrame,
           NEW k \in Key, NEW own \in BOOLEAN, NEW l,
           Arrived(l, k, own), Receive(k, own, l)
    PROVE  IInv'
<1>1. 0 \in 0..(Recovery - 1)
  BY ReqAssumption
<1>2. ASSUME queue' = queue, streak' \in {0, streak}, orphans' \subseteq Req
      PROVE  TypeRest'
  BY <1>1, <1>2 DEF TypeRest, IInv
<1>3. CASE own /\ kind[current].raw
  <2>1. PluginReply(l)
    BY <1>3 DEF Receive
  <2>2. /\ current \in Req /\ Silent(current) /\ handler = NoReq /\ acct \in AcctType
        /\ strictActive \in {NoReq, current} /\ kind \in [Req -> Kind]
        /\ \A j \in TrackedKeys : KeyOf(current) # j
    <3>1. current # NoReq
      BY <1>3 DEF Arrived
    <3> QED BY <1>3, <3>1, CurrentFacts, KindFacts DEF Silent
  <2>3. Solvent(current, acct, l, NoFrame)
    <3>1. ASSUME NEW j \in TrackedKeys PROVE Covered(l, NoFrame, j)
      <4>1. InHand(l, k, own, j) /\ Late(l, NoFrame, j) = l.late[j] /\ l.late[j] \in Nat
        BY UnframedNumbers DEF Arrived
      <4> QED BY <1>3, <2>2, <4>1 DEF InHand, Covered
    <3> QED BY <2>2, <3>1 DEF Solvent
  <2>4. TypeRest'
    BY <1>2, <2>1 DEF PluginReply, IInv, TypeRest
  <2>5. FrameOf(current, l, NoFrame) /\ "reply" \in Final /\ "reply" # "stale"
    BY DEF FrameOf, Final
  <2> QED BY <2>1, <2>2, <2>3, <2>4, <2>5, FinishCore DEF PluginReply, Arrived, IInv, Core
<1>4. CASE ~(own /\ kind[current].raw)
  <2>1. PICK m \in Replies(k) : Dispatch(m, own, l)
    BY <1>4 DEF Receive
  <2>2. queue' = queue /\ streak' \in {0, streak} /\ orphans' \subseteq Req
    <3>1. orphans \subseteq Req /\ handler \in Req \cup {NoReq}
      BY DEF IInv, TypeRest, Core, TypeCore
    <3>2. CASE Ambiguous(m, l)
      BY <2>1, <3>1, <3>2 DEF Dispatch, RejectCurrent
    <3>3. CASE ~Ambiguous(m, l) /\ ~Drains(m, l) /\ HandlerMatches(m)
      <4>1. streak' = 0 /\ queue' = queue /\ Answered(handler, m, own, l)
        BY <2>1, <3>3 DEF Dispatch
      <4>2. orphans' \subseteq Req
        BY <3>1, <3>3, <4>1 DEF Answered, Resend, ArmRetry, HandlerMatches
      <4> QED BY <4>1, <4>2
    <3>4. CASE ~Ambiguous(m, l) /\ (Drains(m, l) \/ ~HandlerMatches(m))
      BY <2>1, <3>1, <3>4 DEF Dispatch, machine
    <3> QED BY <3>2, <3>3, <3>4
  <2>3. TypeRest'
    BY <1>2, <2>2
  <2> QED BY <2>1, <2>3, DispatchCore DEF IInv
<1> QED BY <1>3, <1>4

\* A message on the wire leaves the ledger balanced with the message in hand.
LEMMA TakenFields ==
    ASSUME IInv, NEW k \in Key, NEW own \in BOOLEAN, InTransit(k, own)
    PROVE  LET n == Taken(k, own) IN
           /\ n \in LedgerType /\ n.half = ledger.half
           /\ n.strict = ledger.strict /\ n.best = ledger.best
           /\ n.fresh = ledger.fresh - (IF own THEN 1 ELSE 0)
           /\ \A j \in Key : n.late[j] = ledger.late[j] - (IF ~own /\ j = k THEN 1 ELSE 0)
<1>1. /\ ledger \in LedgerType /\ ledger.late \in [Key -> Nat] /\ ledger.fresh \in Nat
      /\ ledger.late[k] \in Nat
  BY DEF IInv, Core, TypeCore, LedgerType
<1>2. CASE own
  BY <1>1, <1>2 DEF InTransit, Taken, LedgerType
<1>3. CASE ~own
  <2>1. [ledger.late EXCEPT ![k] = @ - 1] \in [Key -> Nat]
    BY <1>1, <1>3 DEF InTransit
  <2> QED BY <1>1, <1>3, <2>1 DEF Taken, LedgerType
<1> QED BY <1>2, <1>3

LEMMA DeliverStep ==
    ASSUME IInv, NEW k \in Key, NEW own \in BOOLEAN, Deliver(k, own)
    PROVE  IInv'
<1> DEFINE n == Taken(k, own)
           l == Unframed(n)
<1>1. InTransit(k, own) /\ ledger \in LedgerType /\ NoReq \notin Req
  BY ReqAssumption DEF Deliver, IInv, Core, TypeCore
<1>2. /\ l \in LedgerType /\ ~l.half
      /\ l.strict = ledger.strict /\ l.best = ledger.best
      /\ l.fresh = ledger.fresh - (IF own THEN 1 ELSE 0)
      /\ \A j \in Key : l.late[j] = ledger.late[j] - (IF ~own /\ j = k THEN 1 ELSE 0)
  <2>1. /\ n \in LedgerType /\ n.half = ledger.half
        /\ n.strict = ledger.strict /\ n.best = ledger.best
        /\ n.fresh = ledger.fresh - (IF own THEN 1 ELSE 0)
        /\ \A j \in Key : n.late[j] = ledger.late[j] - (IF ~own /\ j = k THEN 1 ELSE 0)
    BY <1>1, TakenFields
  <2> HIDE DEF n
  <2> QED BY <2>1, UnframedFields
<1> HIDE DEF l
<1>3. ASSUME NEW j \in TrackedKeys PROVE InHand(l, k, own, j)
  <2>1. /\ j \in Key /\ ledger.late[j] \in Nat /\ ledger.fresh \in Nat
        /\ ledger.late[j] <= Late(ledger, frame, j) /\ ledger.fresh <= Fresh(ledger, frame)
        /\ Late(ledger, frame, j) \in Nat /\ Fresh(ledger, frame) \in Nat
        /\ Debt(ledger, j) \in Nat /\ acct.sent \in Nat /\ acct.matched \in Nat
    BY <1>1, TrackedSubset, LedgerNumbers DEF IInv, Core, TypeCore, AcctType
  <2>2. /\ Debt(l, j) = Debt(ledger, j)
        /\ l.late[j] + (IF ~own /\ j = k THEN 1 ELSE 0) = ledger.late[j]
        /\ l.fresh + (IF own THEN 1 ELSE 0) = ledger.fresh
    BY <1>2, <2>1 DEF Debt
  <2>3. Balanced(current, acct, ledger, frame, handler, j)
    BY DEF IInv, Core, LedgerInv
  <2> QED BY <2>1, <2>2, <2>3 DEF Balanced, Covered, InHand
<1>4. own => current # NoReq /\ KeyOf(current) = k
  BY <1>1 DEF InTransit
<1>5. current = NoReq => l.fresh = 0
  BY <1>2, <1>4 DEF IInv, Core, LedgerInv, Shape, LedgerType
<1>6. Arrived(l, k, own)
  BY <1>2, <1>3, <1>4, <1>5 DEF Arrived
<1>7. Receive(k, own, l) /\ frame' = NoFrame /\ UNCHANGED <<listening, open, kind, call>>
  BY DEF Deliver, l
<1> QED BY <1>6, <1>7, ReceiveStep

LEMMA LastPartStep ==
    ASSUME IInv, LastPart
    PROVE  IInv'
<1> DEFINE l == Unframed(ledger)
<1>1. /\ frame \in Key /\ ledger.half \in BOOLEAN /\ ledger \in LedgerType /\ NoReq \notin Req
      /\ frame # NoFrame
  BY ReqAssumption DEF LastPart, IInv, TypeRest, Core, TypeCore, LedgerType
<1>2. /\ l \in LedgerType /\ ~l.half
      /\ l.strict = ledger.strict /\ l.best = ledger.best
      /\ l.fresh = ledger.fresh /\ l.late = ledger.late
  BY <1>1, UnframedFields
<1> HIDE DEF l
<1>3. ASSUME NEW j \in TrackedKeys PROVE InHand(l, frame, ledger.half, j)
  <2>1. /\ j \in Key /\ ledger.late[j] \in Nat /\ ledger.fresh \in Nat
    BY <1>1, TrackedSubset, LedgerNumbers
  <2>2. /\ Debt(l, j) = Debt(ledger, j)
        /\ l.late[j] + (IF ~ledger.half /\ j = frame THEN 1 ELSE 0) = Late(ledger, frame, j)
        /\ l.fresh + (IF ledger.half THEN 1 ELSE 0) = Fresh(ledger, frame)
    BY <1>1, <1>2, <2>1 DEF Debt, Late, Fresh
  <2>3. Balanced(current, acct, ledger, frame, handler, j)
    BY DEF IInv, Core, LedgerInv
  <2> QED BY <2>2, <2>3 DEF Balanced, Covered, InHand
<1>4. ledger.half => current # NoReq /\ KeyOf(current) = frame
  BY <1>1 DEF IInv, Core, LedgerInv, Shape
<1>5. current = NoReq => l.fresh = 0
  BY <1>2 DEF IInv, Core, LedgerInv, Shape
<1>6. Arrived(l, frame, ledger.half)
  BY <1>2, <1>3, <1>4, <1>5 DEF Arrived
<1>7. /\ Receive(frame, ledger.half, l) /\ frame' = NoFrame
      /\ UNCHANGED <<listening, open, kind, call>>
  BY DEF LastPart, l
<1> QED BY <1>1, <1>6, <1>7, ReceiveStep

\* The first part of a frame moves from the wire to the buffer; a lost message
\* leaves the wire.
LEMMA FirstPartOrLoseStep ==
    ASSUME IInv, NEW k \in Key, NEW own \in BOOLEAN, FirstPart(k, own) \/ Lose(k, own)
    PROVE  IInv'
<1> DEFINE n == Taken(k, own)
<1>1. /\ InTransit(k, own) /\ ledger \in LedgerType /\ NoReq \notin Req /\ NoFrame \notin Key
      /\ frame \in Key \cup {NoFrame} /\ current \in Req \cup {NoReq}
  BY ReqAssumption DEF FirstPart, Lose, IInv, Core, TypeCore, TypeRest
<1>2. /\ n \in LedgerType /\ n.half = ledger.half
      /\ n.strict = ledger.strict /\ n.best = ledger.best
      /\ n.fresh = ledger.fresh - (IF own THEN 1 ELSE 0)
      /\ \A j \in Key : n.late[j] = ledger.late[j] - (IF ~own /\ j = k THEN 1 ELSE 0)
  BY <1>1, TakenFields
<1>3. /\ frame' \in {k, frame}
      /\ UNCHANGED <<machine, listening, streak, strictActive, open, kind, call, outcome>>
      /\ \/ frame' = k /\ ledger' = [n EXCEPT !.half = own]
         \/ frame' = frame /\ ledger' = n
  BY DEF FirstPart, Lose
<1> HIDE DEF n
<1>4. /\ ledger' \in LedgerType
      /\ ledger'.strict = ledger.strict /\ ledger'.best = ledger.best
      /\ ledger'.fresh = n.fresh /\ ledger'.late = n.late
      /\ \/ frame' = k /\ ledger'.half = own
         \/ frame' = frame /\ ledger'.half = ledger.half
  BY <1>2, <1>3 DEF LedgerType
<1>5. own => current \in Req /\ KeyOf(current) = k /\ ledger.fresh > 0
  BY <1>1 DEF InTransit
<1>6. Shape(current, acct, ledger', frame', handler)
  <2>1. Shape(current, acct, ledger, frame, handler)
    BY DEF IInv, Core, LedgerInv
  <2>2. ledger.fresh \in Nat
    BY <1>1 DEF LedgerType
  <2> QED BY <1>1, <1>2, <1>3, <1>4, <1>5, <2>1, <2>2 DEF Shape
<1>7. ASSUME NEW j \in TrackedKeys
      PROVE  /\ Debt(ledger', j) = Debt(ledger, j)
             /\ Late(ledger', frame', j) <= Late(ledger, frame, j)
             /\ Fresh(ledger', frame') <= Fresh(ledger, frame)
  <2>1. j \in Key /\ ledger.late[j] \in Nat /\ ledger.fresh \in Nat
    BY <1>1, TrackedSubset, LedgerNumbers
  <2>2. Late(ledger', frame', j) <= Late(ledger, frame, j)
    BY <1>1, <1>2, <1>4, <2>1 DEF Late
  <2>3. Fresh(ledger', frame') <= Fresh(ledger, frame)
    BY <1>1, <1>2, <1>4, <2>1 DEF Fresh
  <2> QED BY <1>4, <2>2, <2>3 DEF Debt
<1>8. Core'
  BY <1>3, <1>4, <1>6, <1>7, LessTraffic
<1>9. TypeRest'
  BY <1>3 DEF IInv, TypeRest, machine
<1> QED BY <1>8, <1>9 DEF IInv


LEMMA StreamErrorStep ==
    ASSUME IInv, StreamError
    PROVE  IInv'
<1> DEFINE a == [acct EXCEPT !.recoveries = @ + 1]
           l == Unframed(ledger)
<1>1. current # NoReq
  BY DEF StreamError, IInv, Core, Control
<1>2. /\ current \in Req /\ acct \in AcctType /\ ledger \in LedgerType
      /\ strictActive = IF Strict(current) THEN current ELSE NoReq
      /\ handler \in {NoReq, current} /\ (handler = current => ~Silent(current))
      /\ \A k \in TrackedKeys : Balanced(current, acct, ledger, frame, handler, k)
  BY <1>1, CurrentFacts
<1>3. a \in AcctType /\ a.sent = acct.sent /\ a.matched = acct.matched
  BY <1>2 DEF AcctType, StreamError
<1>4. /\ frame' = NoFrame /\ queue' = queue /\ UNCHANGED <<listening, streak, open, kind, call>>
      /\ Resend(current, a, l) /\ (kind[current].delayed => handler' = handler)
  BY DEF StreamError
<1>5. l \in LedgerType /\ l.half = FALSE
  BY <1>2, UnframedFields
<1>6. ASSUME NEW k \in TrackedKeys PROVE Balanced(current, a, l, NoFrame, handler, k)
  <2>1. Balanced(current, a, ledger, frame, handler, k)
    BY <1>2, <1>3 DEF Balanced
  <2> HIDE DEF a
  <2> QED BY <1>2, <1>3, <2>1, DropFrame
<1>7. TypeRest'
  BY <1>2, <1>4 DEF IInv, TypeRest, Resend, ArmRetry
<1>8. FrameOf(current, l, frame')
  BY <1>4 DEF FrameOf
<1>9. TypeCore /\ StrictAttribution
  BY DEF IInv, Core
<1> HIDE DEF a, l
<1>10. Core'
  BY <1>2, <1>3, <1>4, <1>5, <1>6, <1>7, <1>8, <1>9, ResendCore
<1> QED BY <1>7, <1>10 DEF IInv

-----------------------------------------------------------------------------
(* Timers *)

LEMMA TimeoutStep ==
    ASSUME IInv, Timeout
    PROVE  IInv'
<1> DEFINE l == Unframed(ledger)
<1>1. current # NoReq
  BY DEF Timeout, IInv, Core, Control
<1>2. /\ current \in Req /\ acct \in AcctType /\ ledger \in LedgerType /\ kind \in [Req -> Kind]
      /\ strictActive = IF Strict(current) THEN current ELSE NoReq
      /\ handler \in {NoReq, current} /\ (handler = current => ~Silent(current))
      /\ \A k \in TrackedKeys : Balanced(current, acct, ledger, frame, handler, k)
  BY <1>1, CurrentFacts
<1>3. l \in LedgerType /\ l.half = FALSE
  BY <1>2, UnframedFields
<1>4. \A k \in TrackedKeys : Balanced(current, acct, l, NoFrame, handler, k)
  BY <1>2, DropFrame
<1>5. frame' = NoFrame /\ UNCHANGED <<open, kind, call>> /\ FrameOf(current, l, NoFrame)
  BY DEF Timeout, FrameOf
<1>6. TypeCore /\ StrictAttribution
  BY DEF IInv, Core
<1>7. CASE acct.attempts >= kind[current].retries
  <2>1. PICK out \in {"timedOut", "null"} :
          /\ handler' = NoReq /\ streak' = (streak + 1) % Recovery
          /\ listening' \in BOOLEAN /\ queue' = queue /\ orphans' = orphans
          /\ Finish(current, acct, l, out)
    BY <1>7 DEF Timeout, IInv, TypeRest
  <2>2. streak' \in 0..(Recovery - 1)
    <3>1. streak + 1 \in Nat
      BY ReqAssumption DEF IInv, TypeRest
    <3> HIDE DEF l
    <3> QED BY <2>1, <3>1, ReqAssumption
  <2>3. TypeRest'
    BY <1>5, <2>1, <2>2 DEF IInv, TypeRest
  <2>4. Solvent(current, acct, l, NoFrame)
    <3> HIDE DEF l
    <3> QED BY <1>2, <1>3, <1>4, BalancedIsReady, ReadyIsSolvent
  <2>5. out \in Final /\ out # "stale"
    BY DEF Final
  <2>6. strictActive \in {NoReq, current}
    BY <1>2
  <2> HIDE DEF l
  <2>7. Core'
    BY <1>2, <1>3, <1>5, <1>6, <2>1, <2>3, <2>4, <2>5, <2>6, FinishCore
  <2> QED BY <2>3, <2>7 DEF IInv
<1>8. CASE ~(acct.attempts >= kind[current].retries)
  <2>1. /\ UNCHANGED <<queue, streak, listening>> /\ Resend(current, acct, l)
        /\ kind[current].delayed => handler' = handler
    BY <1>8 DEF Timeout
  <2>2. TypeRest'
    BY <1>2, <1>5, <2>1 DEF IInv, TypeRest, Resend, ArmRetry
  <2> HIDE DEF l
  <2>3. Core'
    BY <1>2, <1>3, <1>4, <1>5, <1>6, <2>1, <2>2, ResendCore
  <2> QED BY <2>2, <2>3 DEF IInv
<1> QED BY <1>7, <1>8

\* Sending the current request again, by either retry timer
LEMMA RetryCore ==
    ASSUME IInv, TypeRest', kind' = kind, frame' = frame, current # NoReq,
           Send(current, acct, ledger)
    PROVE  Core'
<1>1. /\ current \in Req /\ acct \in AcctType /\ ledger \in LedgerType /\ kind \in [Req -> Kind]
      /\ strictActive = IF Strict(current) THEN current ELSE NoReq
      /\ handler \in {NoReq, current} /\ (handler = current => ~Silent(current))
      /\ FrameOf(current, ledger, frame)
      /\ \A k \in TrackedKeys : Balanced(current, acct, ledger, frame, handler, k)
  BY CurrentFacts
<1>2. Ready(current, acct, ledger, frame)
  BY <1>1, BalancedIsReady
<1>3. strictActive = NoReq \/ (strictActive = current /\ Strict(current))
  BY <1>1
<1>4. Strict(current) /\ strictActive = NoReq => handler = NoReq
  BY <1>1
<1> QED BY <1>1, <1>2, <1>3, <1>4, SendCore DEF IInv, Core

LEMMA RetryTimerStep ==
    ASSUME IInv, RetryTimer \/ \E r \in Req : OrphanTimer(r)
    PROVE  IInv'
<1>1. TypeRest' /\ kind' = kind /\ frame' = frame
  BY DEF RetryTimer, OrphanTimer, IInv, TypeRest
<1>2. CASE Send(current, acct, ledger) /\ current # NoReq
  BY <1>1, <1>2, RetryCore DEF IInv
<1>3. CASE /\ current = NoReq /\ mode' = "idle" /\ retry' = FALSE
           /\ pace' = (pace \/ queue # <<>>)
           /\ UNCHANGED <<current, handler, timeout, acct, strictActive, ledger, outcome>>
  <2>1. TypeCore'
    BY <1>3 DEF IInv, Core, TypeCore
  <2>2. Control'
    BY <1>1, <1>3 DEF IInv, Core, Control
  <2>3. LedgerInv'
    BY <1>1, <1>3 DEF IInv, Core, LedgerInv, Shape, Balanced, Covered, Late, Debt, KeyOf,
       Silent
  <2>4. StrictAttribution'
    BY <1>1, <1>3 DEF IInv, Core, StrictAttribution, Strict
  <2> QED BY <1>1, <2>1, <2>2, <2>3, <2>4 DEF IInv, Core
<1>4. RetryTimer => current # NoReq
  BY DEF RetryTimer, IInv, Core, Control
<1> QED BY <1>2, <1>3, <1>4 DEF RetryTimer, OrphanTimer

-----------------------------------------------------------------------------
(* Callers *)

LEMMA ProcessNextStep ==
    ASSUME IInv, PaceTimer \/ \E r \in Req : Submit(r) \/ SubmitCancelled(r)
    PROVE  IInv'
<1>1. PICK q \in Seq(Req) :
        /\ ProcessNext(q) /\ call' \in [Req -> {"none", "submitted", "cancelled"}]
        /\ UNCHANGED <<orphans, frame, listening, streak, open, kind>>
  <2>1. queue \in Seq(Req) /\ call \in [Req -> {"none", "submitted", "cancelled"}]
    BY DEF IInv, TypeRest
  <2>2. CASE PaceTimer
    BY <2>1, <2>2 DEF PaceTimer
  <2>3. ASSUME NEW r \in Req, Submit(r)
        PROVE  /\ Append(queue, r) \in Seq(Req) /\ ProcessNext(Append(queue, r))
               /\ call' \in [Req -> {"none", "submitted", "cancelled"}]
               /\ UNCHANGED <<orphans, frame, listening, streak, open, kind>>
    BY <2>1, <2>3 DEF Submit
  <2>4. ASSUME NEW r \in Req, SubmitCancelled(r)
        PROVE  /\ ProcessNext(queue)
               /\ call' \in [Req -> {"none", "submitted", "cancelled"}]
               /\ UNCHANGED <<orphans, frame, listening, streak, open, kind>>
    BY <2>1, <2>4 DEF SubmitCancelled
  <2> QED BY <2>1, <2>2, <2>3, <2>4
<1>2. queue' \in Seq(Req)
  BY <1>1 DEF ProcessNext
<1>3. TypeRest'
  BY <1>1, <1>2 DEF IInv, TypeRest
<1>4. Core'
  BY <1>1, <1>3, ProcessNextCore
<1> QED BY <1>3, <1>4 DEF IInv

LEMMA CancelStep ==
    ASSUME IInv, NEW r \in Req, Cancel(r)
    PROVE  IInv'
<1>1. CASE /\ current = r /\ frame' = NoFrame /\ handler' = NoReq /\ queue' = queue
           /\ Finish(r, acct, Unframed(ledger), "cancelled")
  <2> DEFINE l == Unframed(ledger)
  <2>1. current # NoReq
    BY <1>1, ReqAssumption
  <2>2. /\ acct \in AcctType /\ ledger \in LedgerType /\ kind \in [Req -> Kind]
        /\ strictActive = IF Strict(r) THEN r ELSE NoReq
        /\ \A k \in TrackedKeys : Balanced(r, acct, ledger, frame, handler, k)
    BY <1>1, <2>1, CurrentFacts
  <2>3. l \in LedgerType /\ l.half = FALSE
    BY <2>2, UnframedFields
  <2>4. \A k \in TrackedKeys : Balanced(r, acct, l, NoFrame, handler, k)
    BY <2>2, DropFrame
  <2>5. TypeRest'
    BY <1>1 DEF Cancel, IInv, TypeRest
  <2>6. "cancelled" \in Final /\ "cancelled" # "stale"
    BY DEF Final
  <2>7. FrameOf(r, l, NoFrame) /\ kind' = kind /\ TypeCore /\ StrictAttribution
    BY DEF FrameOf, Cancel, IInv, Core
  <2> HIDE DEF l
  <2>8. Solvent(r, acct, l, NoFrame)
    BY <2>2, <2>3, <2>4, BalancedIsReady, ReadyIsSolvent
  <2>9. Core'
    BY <1>1, <2>2, <2>3, <2>5, <2>6, <2>7, <2>8, FinishCore DEF l
  <2> QED BY <2>5, <2>9 DEF IInv
<1>2. CASE /\ \E i \in DOMAIN queue : queue[i] = r /\ queue' = Without(queue, i)
           /\ outcome' = [outcome EXCEPT ![r] = "cancelled"]
           /\ UNCHANGED <<mode, current, handler, pace, retry, timeout, acct,
                          frame, strictActive, ledger>>
  <2>1. UNCHANGED <<orphans, listening, streak, open, kind, call>>
    BY DEF Cancel
  <2>2. queue' \in Seq(Req)
    <3>1. PICK i \in 1..Len(queue) : queue' = Without(queue, i)
      BY <1>2 DEF IInv, TypeRest
    <3>2. queue \in Seq(Req) /\ Len(queue) \in Nat
      BY DEF IInv, TypeRest
    <3>3. \A j \in 1..(Len(queue) - 1) : queue[j] \in Req /\ queue[j + 1] \in Req
      BY <3>2
    <3>4. queue' \in [1..(Len(queue) - 1) -> Req] /\ Len(queue) - 1 \in Nat
      BY <3>1, <3>2, <3>3 DEF Without
    <3> QED BY <3>4
  <2>3. TypeRest'
    BY <1>2, <2>1, <2>2 DEF IInv, TypeRest
  <2>4. TypeCore'
    BY <1>2 DEF IInv, Core, TypeCore, Final
  <2>5. Control' /\ LedgerInv'
    BY <1>2, <2>1 DEF IInv, Core, Control, Strict, LedgerInv, Shape, Balanced, Covered, Late,
       Fresh, Debt, KeyOf, Silent
  <2>6. StrictAttribution'
    BY <1>2, <2>1 DEF IInv, Core, TypeCore, StrictAttribution, Strict
  <2> QED BY <2>3, <2>4, <2>5, <2>6 DEF IInv, Core
<1> QED BY <1>1, <1>2 DEF Cancel

LEMMA DisposeStep ==
    ASSUME IInv, Dispose
    PROVE  IInv'
<1>1. TypeRest'
  <2>1. 0 \in 0..(Recovery - 1) /\ <<>> \in Seq(Req)
    BY ReqAssumption
  <2>2. /\ queue' = <<>> /\ orphans' = {} /\ frame' = NoFrame /\ streak' = 0
        /\ listening' = FALSE /\ open' = FALSE /\ kind' = kind /\ call' = call
    BY DEF Dispose
  <2> QED BY <2>1, <2>2 DEF IInv, TypeRest
<1>2. /\ mode' = "idle" /\ current' = NoReq /\ handler' = NoReq /\ acct' = NoAcct
      /\ pace' = FALSE /\ retry' = FALSE /\ timeout' = FALSE /\ frame' = NoFrame
      /\ ledger' = IF current = NoReq THEN ledger ELSE Fold(current, acct, ledger)
      /\ strictActive' = IF strictActive = current THEN NoReq ELSE strictActive
      /\ kind' = kind /\ kind \in [Req -> Kind] /\ NoReq \notin Req
  BY ReqAssumption DEF Dispose, IInv, TypeRest
<1>3. outcome' \in [Req -> Final \cup {"open"}] /\ StrictAttribution'
  BY DEF Dispose, IInv, Core, TypeCore, StrictAttribution, Final, Strict
<1>4. strictActive' = NoReq
  BY <1>2 DEF IInv, Core, Control
<1>5. /\ ledger' \in LedgerType /\ ledger'.fresh = 0 /\ ledger'.half = FALSE
      /\ \A k \in TrackedKeys : Covered(ledger', NoFrame, k)
  <2>1. \A k \in TrackedKeys : Balanced(current, acct, ledger, frame, handler, k)
    BY DEF IInv, Core, LedgerInv
  <2>2. CASE current = NoReq
    <3>1. ledger' = ledger /\ ledger \in LedgerType /\ ledger.fresh = 0 /\ ~ledger.half
      BY <1>2, <2>2 DEF IInv, Core, TypeCore, LedgerInv, Shape
    <3>2. ledger.half = FALSE
      BY <3>1 DEF LedgerType
    <3>3. ASSUME NEW k \in TrackedKeys PROVE Covered(ledger, NoFrame, k)
      <4>1. Late(ledger, frame, k) <= Debt(ledger, k)
        BY <2>1, <2>2 DEF Balanced, Covered
      <4>2. /\ ledger.late[k] <= Late(ledger, frame, k) /\ Debt(ledger, k) \in Nat
            /\ ledger.late[k] \in Nat /\ Late(ledger, frame, k) \in Nat
        BY <3>1, TrackedSubset, LedgerNumbers
      <4>3. Late(ledger, NoFrame, k) = ledger.late[k]
        BY <3>1, UnframedNumbers
      <4> QED BY <4>1, <4>2, <4>3 DEF Covered
    <3> QED BY <3>1, <3>2, <3>3
  <2>3. CASE current # NoReq
    <3>1. /\ current \in Req /\ acct \in AcctType /\ ledger \in LedgerType
          /\ ledger' = Fold(current, acct, ledger)
      BY <1>2, <2>3, CurrentFacts
    <3> DEFINE n == Fold(current, acct, ledger)
    <3>2. ledger' \in LedgerType /\ ledger'.fresh = 0 /\ ledger'.half = FALSE
      <4>1. kind \in [Req -> Kind]
        BY <1>2
      <4>2. n \in LedgerType /\ n.fresh = 0 /\ n.half = FALSE
        BY <3>1, <4>1, FoldFields
      <4>3. ledger' = n
        BY <3>1
      <4> HIDE DEF n
      <4> QED BY <4>2, <4>3
    <3>3. Solvent(current, acct, ledger, frame) /\ FrameOf(current, ledger, frame)
      BY <1>2, <2>1, <2>3, <3>1, CurrentFacts, BalancedIsReady, ReadyIsSolvent
    <3>4. ASSUME NEW k \in TrackedKeys PROVE Covered(ledger', NoFrame, k)
      <4>1. Covered(ledger', frame, k)
        BY <1>2, <3>1, <3>3, FoldCovers DEF IInv, TypeRest
      <4>2. /\ ledger'.late[k] <= Late(ledger', frame, k) /\ Debt(ledger', k) \in Nat
            /\ ledger'.late[k] \in Nat /\ Late(ledger', frame, k) \in Nat
        BY <3>2, TrackedSubset, LedgerNumbers
      <4>3. Late(ledger', NoFrame, k) = ledger'.late[k]
        BY <3>2, UnframedNumbers
      <4> QED BY <4>1, <4>2, <4>3 DEF Covered
    <3> QED BY <3>2, <3>4
  <2> QED BY <2>2, <2>3
<1>6. TypeCore'
  <2>1. NoAcct \in AcctType
    BY DEF NoAcct, AcctType
  <2>2. ledger' \in LedgerType
    BY <1>5
  <2> QED BY <1>2, <1>3, <1>4, <2>1, <2>2 DEF TypeCore
<1>7. Control'
  BY <1>2, <1>4 DEF Control
<1>8. LedgerInv'
  BY <1>2, <1>5 DEF LedgerInv, Shape, Balanced, Covered, Late, Debt
<1> QED BY <1>1, <1>3, <1>6, <1>7, <1>8 DEF IInv, Core

-----------------------------------------------------------------------------
(* The theorems *)

LEMMA IInvInit == Init => IInv
<1> SUFFICES ASSUME Init PROVE IInv
  OBVIOUS
<1>1. TypeRest
  BY ReqAssumption DEF Init, TypeRest
<1>2. ledger \in LedgerType /\ acct \in AcctType
  BY DEF Init, NoLedger, NoAcct, LedgerType, AcctType
<1>3. TypeCore
  BY <1>2 DEF Init, TypeCore
<1>4. Control
  BY DEF Init, Control
<1>5. ASSUME NEW k \in TrackedKeys PROVE Covered(ledger, frame, k)
  BY TrackedSubset, ReqAssumption DEF Init, NoLedger, Covered, Late, Debt
<1>6. LedgerInv
  <2>1. ledger.fresh = 0 /\ ledger.half = FALSE
    BY DEF Init, NoLedger
  <2>2. current = NoReq /\ handler = NoReq /\ frame = NoFrame
    BY DEF Init
  <2> QED BY <1>5, <2>1, <2>2 DEF LedgerInv, Shape, Balanced
<1>7. StrictAttribution
  BY DEF Init, StrictAttribution
<1> QED BY <1>1, <1>3, <1>4, <1>6, <1>7 DEF IInv, Core

LEMMA IInvStep == IInv /\ [Next]_vars => IInv'
<1> SUFFICES ASSUME IInv, [Next]_vars PROVE IInv'
  OBVIOUS
<1>1. CASE PaceTimer \/ \E r \in Req : Submit(r) \/ SubmitCancelled(r)
  BY <1>1, ProcessNextStep
<1>2. CASE RetryTimer \/ \E r \in Req : OrphanTimer(r)
  BY <1>2, RetryTimerStep
<1>3. CASE Timeout
  BY <1>3, TimeoutStep
<1>4. CASE \E r \in Req : Cancel(r)
  BY <1>4, CancelStep
<1>5. CASE Dispose
  BY <1>5, DisposeStep
<1>6. CASE \E k \in Key, own \in BOOLEAN : Deliver(k, own)
  BY <1>6, DeliverStep
<1>7. CASE \E k \in Key, own \in BOOLEAN : FirstPart(k, own) \/ Lose(k, own)
  BY <1>7, FirstPartOrLoseStep
<1>8. CASE LastPart
  BY <1>8, LastPartStep
<1>9. CASE StreamError
  BY <1>9, StreamErrorStep
<1>10. CASE Replace \/ StreamDone \/ UNCHANGED vars
  <2>1. /\ UNCHANGED <<machine, frame, streak, strictActive, ledger, kind, call, outcome>>
        /\ listening' \in BOOLEAN /\ open' \in BOOLEAN
    BY <1>10 DEF Replace, StreamDone, vars, IInv, TypeRest
  <2>2. TypeRest'
    BY <2>1 DEF IInv, TypeRest, machine
  <2>3. TypeCore' /\ Control' /\ StrictAttribution'
    BY <2>1 DEF IInv, Core, TypeCore, Control, StrictAttribution, Strict, machine
  <2>4. LedgerInv'
    BY <2>1 DEF IInv, Core, LedgerInv, Shape, Balanced, Covered, Late, Fresh, Debt, KeyOf,
       Strict, Silent, machine
  <2> QED BY <2>2, <2>3, <2>4 DEF IInv, Core
<1> QED BY <1>1, <1>2, <1>3, <1>4, <1>5, <1>6, <1>7, <1>8, <1>9, <1>10
        DEF Next, Timers, Callers, Traffic

(***************************************************************************)
(* Every variable keeps its type: in particular the debt counters and the  *)
(* numbers of replies in transit never become negative.                    *)
(***************************************************************************)
THEOREM TypeCorrect == Spec => []TypeOK
<1>1. IInv => TypeOK
  BY DEF IInv, TypeRest, Core, TypeCore, TypeOK, AcctType, LedgerType
<1> QED BY <1>1, IInvInit, IInvStep, PTL DEF Spec

(***************************************************************************)
(* No strict request is completed with a reply to an earlier request, for  *)
(* any number of requests, slots and retries, whatever is lost, late or    *)
(* split, and however often the manager is replaced.                       *)
(***************************************************************************)
THEOREM StrictAttributionHolds == Spec => []StrictAttribution
<1>1. IInv => StrictAttribution
  BY DEF IInv, Core
<1> QED BY <1>1, IInvInit, IInvStep, PTL DEF Spec

(***************************************************************************)
(* Every reply an earlier request for a tracked key left on the wire is    *)
(* covered by a debt entry of _StrictResponseAttribution.                  *)
(***************************************************************************)
THEOREM DebtAccounting == Spec => []DebtCoversTransit
<1>1. ASSUME IInv PROVE DebtCoversTransit
  <2>1. ASSUME NEW k \in TrackedKeys, current # NoReq, KeyOf(current) = k
        PROVE  Late(ledger, frame, k) + Fresh(ledger, frame)
                 <= Debt(ledger, k) + acct.sent - acct.matched
    <3>1. Balanced(current, acct, ledger, frame, handler, k)
      BY <1>1 DEF IInv, Core, LedgerInv
    <3>2. /\ Late(ledger, frame, k) \in Nat /\ Fresh(ledger, frame) \in Nat
          /\ Debt(ledger, k) \in Nat /\ acct.sent \in Nat /\ acct.matched \in Nat
      BY <1>1, TrackedSubset, LedgerNumbers DEF IInv, Core, TypeCore, AcctType
    <3> QED BY <2>1, <3>1, <3>2 DEF Balanced, Covered
  <2>2. ASSUME NEW k \in TrackedKeys, current = NoReq \/ KeyOf(current) # k
        PROVE  Late(ledger, frame, k) <= Debt(ledger, k)
    BY <1>1, <2>2 DEF IInv, Core, LedgerInv, Balanced, Covered
  <2> QED BY <2>1, <2>2 DEF DebtCoversTransit
<1> QED BY <1>1, IInvInit, IInvStep, PTL DEF Spec
===============================================================================
