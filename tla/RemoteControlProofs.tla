------------------------- MODULE RemoteControlProofs -------------------------
(***************************************************************************)
(* For every set of controls and every number of connections, sessions and *)
(* inputs: a host acts on its own connection only, and what it leaves      *)
(* pushed is released before another host's inputs, or reported.           *)
(*                                                                         *)
(* The promises are not inductive by themselves.  That hosts do not mix    *)
(* needs where the cleanups are: a host that has not failed either finds   *)
(* the controls of former hosts up, or has a cleanup before its inputs     *)
(* (CleanForHost, InputsComeLast), and a cleanup ends well only when       *)
(* nothing is owed (CleanupCovers).  That holds are owed needs that a      *)
(* release which was written has left its control up (WritesAim).          *)
(***************************************************************************)
EXTENDS RemoteControl, SequenceTheorems, TLAPS

-----------------------------------------------------------------------------
(* The inductive invariant *)

ScopeRecord ==
    [manager : Manager, sent : SUBSET Control, unconfirmed : BOOLEAN, cancelled : BOOLEAN,
     chain : Seq(Ops), run : {"idle", "queued", "written", "failed", "cancelled"},
     todo : SUBSET Control, aim : Control \cup {NoControl}, failed : BOOLEAN, cut : BOOLEAN]

SessionRecord == [scope : 1..MaxScopes, held : SUBSET Control, cancelled : BOOLEAN]

WireRecord == [down : [Control -> 0..MaxSessions], lost : SUBSET Control]

Failure == [by : 0..MaxSessions, scope : 0..MaxScopes, cancelled : BOOLEAN, next : BOOLEAN]

\* The types, field by field.
Typed ==
    /\ live \in Manager \cup {NoManager} /\ retired \in Manager \cup {NoManager}
    /\ ready \in BOOLEAN /\ told \in BOOLEAN /\ disposed \in BOOLEAN
    /\ scopes \in Seq(ScopeRecord) /\ Len(scopes) <= MaxScopes
    /\ sessions \in Seq(SessionRecord) /\ Len(sessions) <= MaxSessions
    /\ wire \in Seq(WireRecord) /\ Len(wire) = Len(scopes)
    /\ current \in 0..Len(scopes) /\ awaited \in 0..Len(scopes)
    /\ session \in 0..Len(sessions)
    /\ raising \in Failure /\ raising.by <= Len(sessions)
    /\ \A s \in DOMAIN sessions : sessions[s].scope <= Len(scopes)

\* An operation that runs is the first of its chain.
RunsFirst ==
    \A c \in DOMAIN scopes :
        /\ scopes[c].chain = <<>> => scopes[c].run = "idle"
        /\ scopes[c].run = "idle" => scopes[c].aim = NoControl
        /\ scopes[c].cut => HeadOf(scopes[c]) = Cleanup

\* Inputs are chained to the connection of their session.
InputsOfSessions ==
    \A c \in DOMAIN scopes : \A j \in DOMAIN scopes[c].chain :
        LET s == scopes[c].chain[j].by IN
        s # 0 => s \in DOMAIN sessions /\ sessions[s].scope = c

\* What is shown as available is the connection that the state has.
ReadyIsConnected ==
    /\ current # 0 => current = Len(scopes) /\ ~disposed
    /\ ready => /\ current # 0 /\ ~disposed /\ scopes[current].manager = live
                /\ retired = NoManager /\ ~scopes[current].cancelled
    /\ session # 0 => current # 0 /\ sessions[session].scope = current
    /\ ~HostGone => ready

\* A write is aimed at the control of its operation; a push is owed from before
\* it is written, and what was released is up.
WritesAim ==
    \A c \in DOMAIN scopes :
        LET sc == scopes[c]
            op == HeadOf(sc)
        IN  sc.run # "idle" =>
            /\ sc.run = "queued" /\ op.kind = "push" => sc.aim = op.control /\ sc.aim \in sc.sent
            /\ sc.run \in {"queued", "written"} /\ op.kind \in {"release", "cleanup"} =>
                  sc.aim \in Control
            /\ sc.run = "written" /\ op.kind \in {"release", "cleanup"} =>
                  wire[c].down[sc.aim] = 0

\* A connection that is not available, or whose cleanup is cut short, owes nothing.
UnreadyOwesNothing ==
    current # 0 /\ (~ready \/ scopes[current].cut) => scopes[current].sent = {}

\* A cleanup has still to release, releases now, or has failed to release what is owed.
CleanupCovers ==
    \A c \in DOMAIN scopes :
        LET sc == scopes[c] IN
        sc.run # "idle" /\ HeadOf(sc) = Cleanup =>
            sc.failed \/ sc.sent \subseteq sc.todo \cup {sc.aim}

\* No cleanup comes after an input of the live host.
InputsComeLast ==
    ~HostGone => \A j, k \in DOMAIN scopes[current].chain :
        scopes[current].chain[j].by = session /\ k > j => scopes[current].chain[k] # Cleanup

\* With no cleanup to come, none that failed, the controls that are down are
\* the live host's.
CleanForHost ==
    ~HostGone /\ ~scopes[current].unconfirmed =>
        \/ \E j \in DOMAIN scopes[current].chain : scopes[current].chain[j] = Cleanup
        \/ \A i \in Control \ wire[current].lost : wire[current].down[i] \in {0, session}

RemoteInv ==
    /\ Typed /\ RunsFirst /\ InputsOfSessions /\ ReadyIsConnected /\ WritesAim
    /\ UnreadyOwesNothing /\ CleanupCovers /\ InputsComeLast /\ CleanForHost
    /\ OnlyTheHostActs /\ HoldsAreOwed /\ HostsDoNotMix /\ LossIsReported

USE RemoteAssumption

-----------------------------------------------------------------------------
(* Sequences, operations and connections *)

\* The elements of a sequence after its head is removed.
LEMMA TailFacts ==
    ASSUME NEW S, NEW s \in Seq(S), s # <<>>
    PROVE  /\ Tail(s) \in Seq(S) /\ Head(s) = s[1] /\ 1 \in DOMAIN s /\ s[1] \in S
           /\ \A i \in DOMAIN Tail(s) : i + 1 \in DOMAIN s /\ Tail(s)[i] = s[i + 1]
           /\ \A i, j \in DOMAIN Tail(s) : i > j => i + 1 > j + 1
           /\ \A i \in DOMAIN s : i # 1 => i - 1 \in DOMAIN Tail(s) /\ Tail(s)[i - 1] = s[i]
  OBVIOUS

\* The elements of a sequence after one is added.
LEMMA AppendFacts ==
    ASSUME NEW S, NEW s \in Seq(S), NEW x \in S
    PROVE  /\ Append(s, x) \in Seq(S) /\ Append(s, x) # <<>> /\ Len(s) \in Nat
           /\ Len(Append(s, x)) = Len(s) + 1
           /\ Len(s) + 1 \in DOMAIN Append(s, x) /\ Append(s, x)[Len(s) + 1] = x
           /\ Len(s) + 1 \notin DOMAIN s
           /\ \A i \in DOMAIN s : i \in 1..Len(s) /\ i \in DOMAIN Append(s, x)
           /\ \A i \in DOMAIN s : Append(s, x)[i] = s[i]
           /\ \A i \in DOMAIN Append(s, x) :
                 (i \in DOMAIN s /\ Append(s, x)[i] = s[i]) \/ i = Len(s) + 1
           /\ \A i \in DOMAIN Append(s, x) : i <= Len(s) + 1
           /\ s # <<>> => Head(Append(s, x)) = Head(s)
           /\ s = <<>> => Head(Append(s, x)) = x
<1> DEFINE t == Append(s, x)
<1>1. /\ t \in Seq(S) /\ t # <<>> /\ Len(t) = Len(s) + 1 /\ t[Len(s) + 1] = x
      /\ \A i \in 1..Len(s) : t[i] = s[i]
  BY AppendProperties
<1>2. /\ Len(s) \in Nat /\ DOMAIN s = 1..Len(s) /\ DOMAIN t = 1..Len(t)
  BY <1>1, LenProperties
<1>3. /\ s # <<>> => Head(t) = Head(s)
      /\ s = <<>> => Head(t) = x
  BY HeadTailAppend
<1> QED
  BY <1>1, <1>2, <1>3

\* A sequence with one element replaced.
LEMMA ReplaceFacts ==
    ASSUME NEW S, NEW s \in Seq(S), NEW n \in DOMAIN s, NEW x \in S
    PROVE  LET t == [s EXCEPT ![n] = x] IN
           /\ t \in Seq(S) /\ Len(t) = Len(s) /\ DOMAIN t = DOMAIN s
           /\ t[n] = x /\ \A i \in DOMAIN s : i # n => t[i] = s[i]
<1> DEFINE t == [s EXCEPT ![n] = x]
<1>1. t \in Seq(S) /\ Len(t) = Len(s)
  BY ExceptSeq, LenProperties
<1>2. DOMAIN t = DOMAIN s /\ t[n] = x /\ \A i \in DOMAIN s : i # n => t[i] = s[i]
  OBVIOUS
<1> QED
  BY <1>1, <1>2

\* An operation is a cleanup, or the input of a session.
LEMMA OpFacts ==
    ASSUME NEW op \in Ops
    PROVE  /\ op.kind \in {"push", "release", "turn", "cleanup"} /\ op.by \in 0..MaxSessions
           /\ op = Cleanup <=> op.kind = "cleanup"
           /\ op = Cleanup <=> op.by = 0
           /\ op.kind \in {"push", "release"} => op.control \in Control
           /\ op.control \in Control \cup {NoControl}
  BY DEF Ops, Cleanup, Op

\* The first operation of a chain, if there is one.
LEMMA HeadOfFacts ==
    ASSUME NEW sc \in ScopeRecord
    PROVE  /\ sc.chain = <<>> => HeadOf(sc) = Op("none", 0, NoControl) /\ HeadOf(sc) # Cleanup
                                 /\ HeadOf(sc).by = 0 /\ HeadOf(sc).kind = "none"
           /\ sc.chain # <<>> => /\ HeadOf(sc) = Head(sc.chain) /\ HeadOf(sc) \in Ops
                                 /\ 1 \in DOMAIN sc.chain /\ sc.chain[1] = HeadOf(sc)
<1>1. sc.chain \in Seq(Ops)
  BY DEF ScopeRecord
<1>2. Op("none", 0, NoControl) # Cleanup
  BY DEF Op, Cleanup
<1>3. sc.chain # <<>> => /\ HeadOf(sc) = Head(sc.chain) /\ HeadOf(sc) \in Ops
                         /\ 1 \in DOMAIN sc.chain /\ sc.chain[1] = HeadOf(sc)
  BY <1>1, TailFacts DEF HeadOf
<1> QED
  BY <1>2, <1>3 DEF HeadOf, Op

-----------------------------------------------------------------------------
(* Cancellation *)

\* t is the connection s after a cancellation: its write may have been stopped,
\* what it owes given up, and a cleanup chained.
Follows(t, s) ==
    /\ t \in ScopeRecord
    /\ t.manager = s.manager /\ t.unconfirmed = s.unconfirmed /\ t.sent \subseteq s.sent
    /\ t.todo = s.todo /\ t.aim = s.aim /\ t.failed = s.failed
    /\ t.run = s.run \/ (s.run = "queued" /\ t.run = "cancelled")
    /\ t.chain = s.chain \/ t.chain = Append(s.chain, Cleanup)
    /\ t.cut => s.cut \/ HeadOf(s) = Cleanup

\* Nothing of the host is left queued in t, which follows s.
HostStopped(t, s) == session # 0 /\ HeadOf(s).by = session => t.run # "queued"

\* A stopped write.
LEMMA StopWriteFacts ==
    ASSUME NEW sc \in ScopeRecord
    PROVE  LET t == StopWrite(sc) IN
           /\ t \in ScopeRecord /\ t.run # "queued" /\ Follows(t, sc)
           /\ t.cancelled = sc.cancelled /\ t.cut = sc.cut
           /\ t.sent = sc.sent /\ t.chain = sc.chain /\ HeadOf(t) = HeadOf(sc)
  BY DEF StopWrite, ScopeRecord, Follows, HeadOf

\* A connection given up.
LEMMA SeveredFacts ==
    ASSUME NEW sc \in ScopeRecord
    PROVE  LET t == Severed(sc) IN
           /\ t \in ScopeRecord /\ Follows(t, sc) /\ t.cancelled = TRUE
           /\ t.sent = sc.sent /\ t.chain = sc.chain
           /\ t.run = "queued" => sc.run = "queued"
<1> DEFINE st == StopWrite(sc)
<1>1. /\ st \in ScopeRecord /\ Follows(st, sc) /\ st.chain = sc.chain /\ st.sent = sc.sent
  BY StopWriteFacts
<1>2. CASE HeadOf(sc) = Cleanup
  <2>1. Severed(sc) = [[st EXCEPT !.cut = TRUE] EXCEPT !.cancelled = TRUE]
    BY <1>2 DEF Severed
  <2> HIDE DEF st
  <2> QED
    BY <1>1, <1>2, <2>1 DEF ScopeRecord, Follows
<1>3. CASE HeadOf(sc) # Cleanup
  <2>1. Severed(sc) = [sc EXCEPT !.cancelled = TRUE]
    BY <1>3 DEF Severed
  <2> QED
    BY <1>3, <2>1 DEF ScopeRecord, Follows
<1> QED
  BY <1>2, <1>3

\* The scopes are those there were, some of them stopped.
AllFollow(scs) ==
    /\ scs \in Seq(ScopeRecord) /\ Len(scs) = Len(scopes) /\ DOMAIN scs = DOMAIN scopes
    /\ \A c \in DOMAIN scopes :
        Follows(scs[c], scopes[c]) /\ HostStopped(scs[c], scopes[c])

\* The session's input is withdrawn, wherever it is queued.
LEMMA WithoutHostFacts ==
    ASSUME Typed
    PROVE  /\ AllFollow(WithoutHost(scopes))
           /\ \A c \in DOMAIN scopes :
                /\ WithoutHost(scopes)[c].cancelled = scopes[c].cancelled
                /\ WithoutHost(scopes)[c].cut = scopes[c].cut
                /\ WithoutHost(scopes)[c].sent = scopes[c].sent
                /\ WithoutHost(scopes)[c].chain = scopes[c].chain
                /\ HeadOf(WithoutHost(scopes)[c]) = HeadOf(scopes[c])
<1> DEFINE w == WithoutHost(scopes)
<1>1. /\ scopes \in Seq(ScopeRecord) /\ Len(scopes) \in Nat /\ DOMAIN scopes = 1..Len(scopes)
      /\ \A c \in DOMAIN scopes : scopes[c] \in ScopeRecord
  BY LenProperties, ElementOfSeq DEF Typed
<1>2. /\ DOMAIN w = DOMAIN scopes
      /\ \A c \in DOMAIN scopes :
            w[c] = IF session # 0 /\ HeadOf(scopes[c]).by = session
                   THEN StopWrite(scopes[c]) ELSE scopes[c]
  BY DEF WithoutHost
<1>3. ASSUME NEW c \in DOMAIN scopes
      PROVE  /\ w[c] \in ScopeRecord /\ Follows(w[c], scopes[c])
             /\ HostStopped(w[c], scopes[c])
             /\ w[c].cancelled = scopes[c].cancelled /\ w[c].cut = scopes[c].cut
             /\ w[c].sent = scopes[c].sent /\ w[c].chain = scopes[c].chain
             /\ HeadOf(w[c]) = HeadOf(scopes[c])
  <2>1. CASE session # 0 /\ HeadOf(scopes[c]).by = session
    <3>1. w[c] = StopWrite(scopes[c])
      BY <1>2, <2>1
    <3> HIDE DEF w
    <3> QED
      BY <1>1, <3>1, StopWriteFacts DEF HostStopped
  <2>2. CASE ~(session # 0 /\ HeadOf(scopes[c]).by = session)
    <3>1. w[c] = scopes[c]
      BY <1>2, <2>2
    <3> HIDE DEF w
    <3> QED
      BY <1>1, <2>2, <3>1 DEF HostStopped, Follows
  <2> QED
    BY <2>1, <2>2
<1>4. w \in [1..Len(scopes) -> ScopeRecord]
  <2>1. w = [c \in 1..Len(scopes) |-> w[c]]
    BY <1>1 DEF WithoutHost
  <2> HIDE DEF w
  <2> QED
    BY <1>1, <1>3, <2>1
<1> HIDE DEF w
<1>5. w \in Seq(ScopeRecord) /\ Len(w) = Len(scopes)
  BY <1>1, <1>4
<1> QED
  BY <1>2, <1>3, <1>5 DEF AllFollow, w

\* So is what a connection that is given up has queued.
LEMMA DetachedFacts ==
    ASSUME Typed, current # 0
    PROVE  /\ AllFollow(Detached(scopes))
           /\ \A c \in DOMAIN scopes : /\ Detached(scopes)[c].sent = scopes[c].sent
                                       /\ Detached(scopes)[c].chain = scopes[c].chain
<1> DEFINE w == WithoutHost(scopes)
           d == Detached(scopes)
<1>1. /\ AllFollow(w)
      /\ \A c \in DOMAIN scopes :
            w[c].sent = scopes[c].sent /\ w[c].chain = scopes[c].chain
            /\ HeadOf(w[c]) = HeadOf(scopes[c])
  BY WithoutHostFacts
<1>2. d = [w EXCEPT ![current] = Severed(w[current])]
  BY DEF Detached
<1>3. /\ current \in DOMAIN w /\ DOMAIN w = DOMAIN scopes
      /\ \A c \in DOMAIN scopes : w[c] \in ScopeRecord /\ scopes[c] \in ScopeRecord
  BY <1>1, LenProperties, ElementOfSeq DEF Typed, AllFollow
<1> HIDE DEF w, d
<1> DEFINE t == Severed(w[current])
<1>4. /\ t \in ScopeRecord /\ Follows(t, w[current])
      /\ t.sent = w[current].sent /\ t.chain = w[current].chain
      /\ t.run = "queued" => w[current].run = "queued"
  BY <1>3, SeveredFacts
<1> HIDE DEF t
<1>5. /\ d \in Seq(ScopeRecord) /\ Len(d) = Len(w) /\ DOMAIN d = DOMAIN w /\ d[current] = t
      /\ \A c \in DOMAIN w : c # current => d[c] = w[c]
  BY <1>1, <1>2, <1>3, <1>4, ReplaceFacts DEF AllFollow, t
<1>6. Follows(t, scopes[current]) /\ HostStopped(t, scopes[current])
  <2>1. Follows(w[current], scopes[current]) /\ HostStopped(w[current], scopes[current])
    BY <1>1, <1>3 DEF AllFollow
  <2> QED
    BY <1>1, <1>3, <1>4, <2>1 DEF Follows, HostStopped
<1> QED
  BY <1>1, <1>3, <1>4, <1>5, <1>6 DEF AllFollow, d

\* An operation is chained to a connection.
LEMMA ChainedFacts ==
    ASSUME NEW scs \in Seq(ScopeRecord), NEW c \in DOMAIN scs, NEW op \in Ops
    PROVE  LET t == Chained(scs, c, op) IN
           /\ t \in Seq(ScopeRecord) /\ Len(t) = Len(scs) /\ DOMAIN t = DOMAIN scs
           /\ \A d \in DOMAIN scs : d # c => t[d] = scs[d]
           /\ t[c] \in ScopeRecord /\ t[c].chain = Append(scs[c].chain, op)
           /\ t[c].manager = scs[c].manager /\ t[c].sent = scs[c].sent
           /\ t[c].unconfirmed = scs[c].unconfirmed /\ t[c].cancelled = scs[c].cancelled
           /\ t[c].run = scs[c].run /\ t[c].todo = scs[c].todo /\ t[c].aim = scs[c].aim
           /\ t[c].failed = scs[c].failed /\ t[c].cut = scs[c].cut
<1> DEFINE r == [scs[c] EXCEPT !.chain = Append(scs[c].chain, op)]
<1>1. scs[c] \in ScopeRecord
  BY LenProperties, ElementOfSeq
<1>2. Append(scs[c].chain, op) \in Seq(Ops)
  BY <1>1, AppendFacts DEF ScopeRecord
<1>3. r \in ScopeRecord
  BY <1>1, <1>2 DEF ScopeRecord
<1>4. /\ r.chain = Append(scs[c].chain, op)
      /\ r.manager = scs[c].manager /\ r.sent = scs[c].sent
      /\ r.unconfirmed = scs[c].unconfirmed /\ r.cancelled = scs[c].cancelled
      /\ r.run = scs[c].run /\ r.todo = scs[c].todo /\ r.aim = scs[c].aim
      /\ r.failed = scs[c].failed /\ r.cut = scs[c].cut
  BY <1>1 DEF ScopeRecord
<1>5. Chained(scs, c, op) = [scs EXCEPT ![c] = r]
  BY DEF Chained
<1> HIDE DEF r
<1> QED
  BY <1>3, <1>4, <1>5, ReplaceFacts

\* The host's input is withdrawn, and a cleanup is chained to c.
LEMMA CleanupChained ==
    ASSUME Typed, NEW c \in DOMAIN scopes
    PROVE  LET w == Chained(WithoutHost(scopes), c, Cleanup) IN
           /\ AllFollow(w)
           /\ \A d \in DOMAIN scopes :
                /\ w[d].cancelled = scopes[d].cancelled /\ w[d].cut = scopes[d].cut
                /\ w[d].sent = scopes[d].sent
                /\ d # c => w[d].chain = scopes[d].chain
           /\ w[c].chain = Append(scopes[c].chain, Cleanup)
<1> DEFINE v == WithoutHost(scopes)
           w == Chained(v, c, Cleanup)
<1>1. /\ AllFollow(v)
      /\ \A d \in DOMAIN scopes :
           /\ v[d].cancelled = scopes[d].cancelled /\ v[d].cut = scopes[d].cut
           /\ v[d].sent = scopes[d].sent /\ v[d].chain = scopes[d].chain
           /\ HeadOf(v[d]) = HeadOf(scopes[d])
  BY WithoutHostFacts
<1>2. v \in Seq(ScopeRecord) /\ DOMAIN v = DOMAIN scopes /\ Len(v) = Len(scopes)
  BY <1>1 DEF AllFollow
<1>3. Cleanup \in Ops
  BY DEF Ops
<1> HIDE DEF v
<1>4. /\ w \in Seq(ScopeRecord) /\ Len(w) = Len(v) /\ DOMAIN w = DOMAIN v
      /\ \A d \in DOMAIN v : d # c => w[d] = v[d]
      /\ w[c] \in ScopeRecord /\ w[c].chain = Append(v[c].chain, Cleanup)
      /\ w[c].manager = v[c].manager /\ w[c].sent = v[c].sent
      /\ w[c].unconfirmed = v[c].unconfirmed /\ w[c].cancelled = v[c].cancelled
      /\ w[c].run = v[c].run /\ w[c].todo = v[c].todo /\ w[c].aim = v[c].aim
      /\ w[c].failed = v[c].failed /\ w[c].cut = v[c].cut
  BY <1>2, <1>3, ChainedFacts
<1> HIDE DEF w
<1>5. Follows(w[c], scopes[c]) /\ HostStopped(w[c], scopes[c])
  <2>1. Follows(v[c], scopes[c]) /\ HostStopped(v[c], scopes[c])
    BY <1>1 DEF AllFollow
  <2> QED
    BY <1>1, <1>4, <2>1 DEF Follows, HostStopped
<1>6. AllFollow(w)
  BY <1>1, <1>2, <1>4, <1>5 DEF AllFollow
<1> QED
  BY <1>1, <1>2, <1>4, <1>6 DEF v, w

-----------------------------------------------------------------------------
(* What keeps the invariant when hosts and connections come and go *)

\* No input is queued but the live host's.
LEMMA QueuedIsTheHosts ==
    ASSUME RemoteInv, NEW c \in DOMAIN scopes, scopes[c].run = "queued"
    PROVE  /\ scopes[c].chain # <<>> /\ HeadOf(scopes[c]) = Head(scopes[c].chain)
           /\ HeadOf(scopes[c]) # Cleanup =>
                /\ HeadOf(scopes[c]).by = session /\ session # 0 /\ ~HostGone
                /\ c = current
<1>1. scopes[c] \in ScopeRecord
  BY LenProperties, ElementOfSeq DEF RemoteInv, Typed
<1>2. scopes[c].chain # <<>>
  BY DEF RemoteInv, RunsFirst
<1>3. /\ HeadOf(scopes[c]) = Head(scopes[c].chain)
      /\ 1 \in DOMAIN scopes[c].chain /\ scopes[c].chain[1] = HeadOf(scopes[c])
  BY <1>1, <1>2, HeadOfFacts
<1>4. CASE HeadOf(scopes[c]) # Cleanup
  <2>1. HeadOf(scopes[c]).by = session /\ ~HostGone /\ session # 0
    BY <1>3, <1>4 DEF RemoteInv, OnlyTheHostActs, HostGone
  <2>2. sessions[session].scope = c
    BY <1>3, <2>1 DEF RemoteInv, InputsOfSessions
  <2> QED
    BY <1>2, <1>3, <2>1, <2>2 DEF RemoteInv, ReadyIsConnected
<1> QED
  BY <1>2, <1>3, <1>4

\* The connections there were follow; one may be new.  What they owed they owe
\* still, or it is given up.
Followed ==
    /\ \A c \in DOMAIN scopes :
        /\ c \in DOMAIN scopes' /\ Follows(scopes'[c], scopes[c])
        /\ HostStopped(scopes'[c], scopes[c])
        /\ wire'[c].down = wire[c].down /\ wire[c].lost \subseteq wire'[c].lost
        /\ scopes[c].sent \subseteq scopes'[c].sent \cup wire'[c].lost
    /\ \A c \in DOMAIN scopes' : c \notin DOMAIN scopes =>
        /\ scopes'[c].chain = <<>> /\ scopes'[c].run = "idle" /\ scopes'[c].aim = NoControl
        /\ ~scopes'[c].cut /\ scopes'[c].sent = {}
        /\ \A i \in Control : wire'[c].down[i] = 0
    /\ \A s \in DOMAIN sessions :
        s \in DOMAIN sessions' /\ sessions'[s].scope = sessions[s].scope

\* A step that takes the host away keeps what is said of each connection.
LEMMA HostGoes ==
    ASSUME RemoteInv, Followed
    PROVE  /\ RunsFirst' /\ InputsOfSessions' /\ WritesAim' /\ CleanupCovers'
           /\ OnlyTheHostActs' /\ HoldsAreOwed' /\ HostsDoNotMix'
<1>1. \A c \in DOMAIN scopes :
        /\ scopes[c] \in ScopeRecord /\ scopes'[c] \in ScopeRecord
        /\ scopes[c].chain \in Seq(Ops)
  <2>1. \A c \in DOMAIN scopes : scopes[c] \in ScopeRecord
    BY LenProperties, ElementOfSeq DEF RemoteInv, Typed
  <2> QED
    BY <2>1 DEF Followed, Follows, ScopeRecord
<1>2. Cleanup \in Ops
  BY DEF Ops
<1>3. ASSUME NEW c \in DOMAIN scopes
      PROVE  /\ scopes[c].chain # <<>> => /\ scopes'[c].chain # <<>>
                                          /\ HeadOf(scopes'[c]) = HeadOf(scopes[c])
             /\ scopes[c].chain = <<>> => scopes'[c].run = "idle"
             /\ \A j \in DOMAIN scopes'[c].chain :
                    \/ j \in DOMAIN scopes[c].chain /\ scopes'[c].chain[j] = scopes[c].chain[j]
                    \/ scopes'[c].chain[j] = Cleanup
  <2>1. CASE scopes'[c].chain = scopes[c].chain
    BY <1>1, <2>1 DEF Followed, Follows, HeadOf, RemoteInv, RunsFirst
  <2>2. CASE scopes'[c].chain = Append(scopes[c].chain, Cleanup)
    <3>1. /\ scopes'[c].chain # <<>>
          /\ scopes[c].chain # <<>> => Head(scopes'[c].chain) = Head(scopes[c].chain)
          /\ \A j \in DOMAIN scopes'[c].chain :
                    \/ j \in DOMAIN scopes[c].chain /\ scopes'[c].chain[j] = scopes[c].chain[j]
                    \/ scopes'[c].chain[j] = Cleanup
      BY <1>1, <1>2, <2>2, AppendFacts
    <3> QED
      BY <3>1 DEF Followed, Follows, HeadOf, RemoteInv, RunsFirst
  <2> QED
    BY <2>1, <2>2 DEF Followed, Follows
<1>4. \A c \in DOMAIN scopes' : c \notin DOMAIN scopes => scopes'[c].run = "idle"
  BY DEF Followed
<1>5. \A c \in DOMAIN scopes' :
        scopes'[c].run # "idle" => /\ c \in DOMAIN scopes /\ scopes[c].run # "idle"
                                   /\ scopes[c].chain # <<>>
                                   /\ HeadOf(scopes'[c]) = HeadOf(scopes[c])
                                   /\ HeadOf(scopes'[c]) = Head(scopes'[c].chain)
  BY <1>3, <1>4 DEF Followed, Follows, HeadOf
<1>6. ASSUME NEW c \in DOMAIN scopes', scopes'[c].run = "queued"
      PROVE  HeadOf(scopes'[c]) = Cleanup
  <2>1. c \in DOMAIN scopes /\ scopes[c].run = "queued" /\ HeadOf(scopes'[c]) = HeadOf(scopes[c])
    BY <1>5, <1>6 DEF Followed, Follows
  <2> QED
    BY <1>6, <2>1, QueuedIsTheHosts DEF Followed, HostStopped
<1>7. RunsFirst'
  <2>1. ASSUME NEW c \in DOMAIN scopes
        PROVE  /\ scopes'[c].chain = <<>> => scopes'[c].run = "idle"
               /\ scopes'[c].run = "idle" => scopes'[c].aim = NoControl
               /\ scopes'[c].cut => HeadOf(scopes'[c]) = Cleanup
    <3>1. scopes'[c].chain = <<>> => scopes'[c].run = "idle"
      BY <1>3
    <3>2. scopes'[c].run = "idle" => scopes'[c].aim = NoControl
      BY DEF Followed, Follows, RemoteInv, RunsFirst
    <3>3. scopes'[c].cut => HeadOf(scopes'[c]) = Cleanup
      <4>1. scopes'[c].cut => HeadOf(scopes[c]) = Cleanup
        BY DEF Followed, Follows, RemoteInv, RunsFirst
      <4>2. HeadOf(scopes[c]) = Cleanup => scopes[c].chain # <<>>
        BY <1>1, HeadOfFacts
      <4> QED
        BY <1>3, <4>1, <4>2
    <3> QED
      BY <3>1, <3>2, <3>3
  <2> QED
    BY <2>1 DEF RunsFirst, Followed, HeadOf
<1>8. InputsOfSessions'
  <2>1. ASSUME NEW c \in DOMAIN scopes, NEW j \in DOMAIN scopes'[c].chain,
               scopes'[c].chain[j].by # 0
        PROVE  /\ scopes'[c].chain[j].by \in DOMAIN sessions'
               /\ sessions'[scopes'[c].chain[j].by].scope = c
    <3>1. Cleanup.by = 0
      BY DEF Cleanup, Op
    <3>2. j \in DOMAIN scopes[c].chain /\ scopes'[c].chain[j] = scopes[c].chain[j]
      BY <1>3, <2>1, <3>1
    <3> QED
      BY <2>1, <3>2 DEF RemoteInv, InputsOfSessions, Followed
  <2>2. \A c \in DOMAIN scopes' : c \notin DOMAIN scopes => DOMAIN scopes'[c].chain = {}
    BY DEF Followed
  <2> QED
    BY <2>1, <2>2 DEF InputsOfSessions
<1>9. WritesAim'
  <2> SUFFICES ASSUME NEW c \in DOMAIN scopes', scopes'[c].run # "idle",
                      HeadOf(scopes'[c]).kind \in {"push", "release", "cleanup"}
               PROVE  /\ ~(scopes'[c].run = "queued" /\ HeadOf(scopes'[c]).kind = "push")
                      /\ scopes'[c].run \in {"queued", "written"}
                           /\ HeadOf(scopes'[c]).kind \in {"release", "cleanup"} =>
                              scopes'[c].aim \in Control
                      /\ scopes'[c].run = "written"
                           /\ HeadOf(scopes'[c]).kind \in {"release", "cleanup"} =>
                              wire'[c].down[scopes'[c].aim] = 0
    BY DEF WritesAim, HeadOf
  <2>1. ~(scopes'[c].run = "queued" /\ HeadOf(scopes'[c]).kind = "push")
    BY <1>6 DEF Cleanup, Op
  <2>2. c \in DOMAIN scopes /\ HeadOf(scopes'[c]) = HeadOf(scopes[c])
    BY <1>5
  <2>3. /\ scopes'[c].aim = scopes[c].aim
        /\ scopes'[c].run = scopes[c].run \/ scopes'[c].run = "cancelled"
        /\ wire'[c].down = wire[c].down
    BY <2>2 DEF Followed, Follows
  <2> QED
    BY <2>1, <2>2, <2>3 DEF RemoteInv, WritesAim
<1>10. CleanupCovers'
  <2> SUFFICES ASSUME NEW c \in DOMAIN scopes', scopes'[c].run # "idle",
                      HeadOf(scopes'[c]) = Cleanup
               PROVE  scopes'[c].failed
                        \/ scopes'[c].sent \subseteq scopes'[c].todo \cup {scopes'[c].aim}
    BY DEF CleanupCovers, HeadOf
  <2>1. /\ c \in DOMAIN scopes /\ HeadOf(scopes[c]) = Cleanup /\ scopes[c].run # "idle"
    BY <1>5
  <2> QED
    BY <2>1 DEF Followed, Follows, RemoteInv, CleanupCovers
<1>11. OnlyTheHostActs' /\ HostsDoNotMix'
  <2>1. \A c \in DOMAIN scopes' : scopes'[c].run = "queued" => Head(scopes'[c].chain) = Cleanup
    BY <1>5, <1>6
  <2> QED
    BY <2>1 DEF OnlyTheHostActs, HostsDoNotMix
<1>12. HoldsAreOwed'
  BY DEF HoldsAreOwed, Followed, RemoteInv
<1> QED
  BY <1>7, <1>8, <1>9, <1>10, <1>11, <1>12

-----------------------------------------------------------------------------
(* Changes of the connection *)

\* A host whose callbacks are invalid stays in the list of sessions.
LEMMA HostCancelledFacts ==
    ASSUME Typed
    PROVE  /\ HostCancelled \in Seq(SessionRecord) /\ Len(HostCancelled) = Len(sessions)
           /\ DOMAIN HostCancelled = DOMAIN sessions
           /\ \A s \in DOMAIN sessions : HostCancelled[s].scope = sessions[s].scope
           /\ session # 0 => HostCancelled[session].cancelled
<1> DEFINE h == HostCancelled
<1>1. /\ sessions \in Seq(SessionRecord) /\ Len(sessions) \in Nat
      /\ DOMAIN sessions = 1..Len(sessions)
      /\ \A s \in DOMAIN sessions : sessions[s] \in SessionRecord
      /\ session \in 0..Len(sessions)
  BY LenProperties, ElementOfSeq DEF Typed
<1>2. /\ DOMAIN h = DOMAIN sessions
      /\ \A s \in DOMAIN sessions :
            h[s] = IF s = session THEN [sessions[s] EXCEPT !.cancelled = TRUE, !.held = {}]
                   ELSE sessions[s]
  BY DEF HostCancelled
<1>3. h = [s \in 1..Len(sessions) |-> h[s]]
  BY <1>1 DEF HostCancelled
<1> HIDE DEF h
<1>4. \A s \in DOMAIN sessions :
        /\ h[s] \in SessionRecord /\ h[s].scope = sessions[s].scope
        /\ s = session => h[s].cancelled
  BY <1>1, <1>2 DEF SessionRecord
<1>5. h \in [1..Len(sessions) -> SessionRecord]
  BY <1>1, <1>3, <1>4
<1>6. h \in Seq(SessionRecord) /\ Len(h) = Len(sessions)
  BY <1>1, <1>5
<1>7. session # 0 => session \in DOMAIN sessions
  BY <1>1
<1> QED
  BY <1>2, <1>4, <1>6, <1>7 DEF h

\* What is detached follows, also when there is no connection.
LEMMA DetachedFollows ==
    ASSUME RemoteInv
    PROVE  /\ AllFollow(Detached(scopes))
           /\ \A c \in DOMAIN scopes : /\ Detached(scopes)[c].sent = scopes[c].sent
                                       /\ Detached(scopes)[c].chain = scopes[c].chain
<1>1. CASE current # 0
  BY <1>1, DetachedFacts DEF RemoteInv
<1>2. CASE current = 0
  <2>1. Detached(scopes) = scopes
    BY <1>2 DEF Detached
  <2>2. session = 0
    BY <1>2 DEF RemoteInv, ReadyIsConnected
  <2>3. /\ scopes \in Seq(ScopeRecord)
        /\ \A c \in DOMAIN scopes : scopes[c] \in ScopeRecord
    BY LenProperties, ElementOfSeq DEF RemoteInv, Typed
  <2> QED
    BY <2>1, <2>2, <2>3 DEF AllFollow, Follows, HostStopped
<1> QED
  BY <1>1, <1>2

\* The connection goes: what it may leave pushed is reported.
LEMMA ConnectionGoes ==
    ASSUME RemoteInv, DropHost, current' = 0, scopes' = Detached(scopes),
           told' = (told \/ Owing), ready' = FALSE, UNCHANGED <<wire, raising>>,
           live' \in Manager \cup {NoManager}, retired' \in Manager \cup {NoManager},
           disposed' \in BOOLEAN, awaited' \in 0..Len(scopes)
    PROVE  RemoteInv'
<1>1. /\ AllFollow(scopes')
      /\ \A c \in DOMAIN scopes : /\ scopes'[c].sent = scopes[c].sent
                                  /\ scopes'[c].chain = scopes[c].chain
  BY DetachedFollows
<1>2. /\ session' = 0 /\ sessions' \in Seq(SessionRecord) /\ Len(sessions') = Len(sessions)
      /\ DOMAIN sessions' = DOMAIN sessions
      /\ \A s \in DOMAIN sessions : sessions'[s].scope = sessions[s].scope
  BY HostCancelledFacts DEF DropHost, RemoteInv
<1>3. Followed
  BY <1>1, <1>2 DEF AllFollow, Followed
<1>4. Typed'
  <2>1. told' \in BOOLEAN
    BY DEF RemoteInv, Typed, Owing
  <2>2. scopes' \in Seq(ScopeRecord) /\ Len(scopes') = Len(scopes)
    BY <1>1 DEF AllFollow
  <2>3. /\ Len(scopes) \in Nat /\ Len(sessions) \in Nat
        /\ \A s \in DOMAIN sessions : sessions[s].scope <= Len(scopes)
    BY LenProperties DEF RemoteInv, Typed
  <2>4. /\ current' \in 0..Len(scopes') /\ awaited' \in 0..Len(scopes')
        /\ session' \in 0..Len(sessions')
        /\ \A s \in DOMAIN sessions' : sessions'[s].scope <= Len(scopes')
    BY <1>2, <2>2, <2>3
  <2> QED
    BY <1>2, <2>1, <2>2, <2>4 DEF RemoteInv, Typed
<1>5. ReadyIsConnected' /\ UnreadyOwesNothing' /\ InputsComeLast' /\ CleanForHost'
  BY <1>2 DEF ReadyIsConnected, UnreadyOwesNothing, InputsComeLast, CleanForHost, HostGone
<1>6. LossIsReported'
  <2>1. Len(scopes') = Len(scopes) /\ DOMAIN scopes = 1..Len(scopes) /\ Len(scopes) \in Nat
    BY <1>1, LenProperties DEF AllFollow, RemoteInv, Typed
  <2>2. ASSUME NEW i \in Control, Len(scopes) # 0, wire[Len(scopes)].down[i] # 0 PROVE told'
    <3>1. i \in scopes[Len(scopes)].sent \/ i \in wire[Len(scopes)].lost
      BY <2>1, <2>2 DEF RemoteInv, HoldsAreOwed
    <3> QED
      BY <2>1, <2>2, <3>1 DEF RemoteInv, LossIsReported, Owing
  <2> QED
    BY <2>1, <2>2 DEF LossIsReported
<1> QED
  BY <1>3, <1>4, <1>5, <1>6, HostGoes DEF RemoteInv

\* The state has another manager, which gets a connection of its own.
LEMMA ConnectionComes ==
    ASSUME RemoteInv, NEW m \in Manager, NEW capable \in BOOLEAN,
           DropHost, Len(scopes) < MaxScopes, current' = Len(scopes) + 1,
           scopes' = Append(Detached(scopes), [NewScope(m) EXCEPT !.cancelled = ~capable]),
           told' = FALSE, wire' = Append(wire, Untouched),
           live' = m, retired' = NoManager, ready' = capable, ~disposed,
           UNCHANGED <<raising, awaited, disposed>>
    PROVE  RemoteInv'
<1> DEFINE new == [NewScope(m) EXCEPT !.cancelled = ~capable]
<1>1. /\ new \in ScopeRecord /\ new.manager = m /\ new.cancelled = ~capable
      /\ new.chain = <<>> /\ new.run = "idle" /\ new.aim = NoControl /\ new.sent = {}
      /\ ~new.cut
  <2>1. <<>> \in Seq(Ops)
    OBVIOUS
  <2> QED
    BY <2>1 DEF NewScope, ScopeRecord
<1>2. /\ Untouched \in WireRecord /\ \A i \in Control : Untouched.down[i] = 0
  BY DEF Untouched, WireRecord
<1>3. AllFollow(Detached(scopes))
      /\ \A c \in DOMAIN scopes : Detached(scopes)[c].sent = scopes[c].sent
  BY DetachedFollows
<1> HIDE DEF new
<1>4. /\ scopes' \in Seq(ScopeRecord) /\ Len(scopes') = Len(scopes) + 1
      /\ Len(scopes) + 1 \in DOMAIN scopes' /\ scopes'[Len(scopes) + 1] = new
      /\ \A c \in DOMAIN scopes : c \in DOMAIN scopes' /\ scopes'[c] = Detached(scopes)[c]
      /\ \A c \in DOMAIN scopes' : c \in DOMAIN scopes \/ c = Len(scopes) + 1
  BY <1>1, <1>3, AppendFacts DEF AllFollow, new
<1>5. /\ Len(scopes) \in Nat /\ Len(wire) = Len(scopes) /\ DOMAIN wire = DOMAIN scopes
      /\ Len(sessions) \in Nat
  BY LenProperties DEF RemoteInv, Typed
<1>6. /\ wire' \in Seq(WireRecord) /\ Len(wire') = Len(wire) + 1
      /\ wire'[Len(scopes) + 1] = Untouched
      /\ \A c \in DOMAIN scopes : wire'[c] = wire[c]
  <2>1. wire \in Seq(WireRecord)
    BY DEF RemoteInv, Typed
  <2> HIDE DEF Untouched
  <2>2. /\ wire' \in Seq(WireRecord) /\ Len(wire') = Len(wire) + 1
        /\ wire'[Len(wire) + 1] = Untouched
        /\ \A c \in DOMAIN wire : wire'[c] = wire[c]
    BY <1>2, <2>1, AppendFacts
  <2> QED
    BY <1>5, <2>2
<1>7. /\ session' = 0 /\ sessions' \in Seq(SessionRecord) /\ Len(sessions') = Len(sessions)
      /\ DOMAIN sessions' = DOMAIN sessions
      /\ \A s \in DOMAIN sessions : sessions'[s].scope = sessions[s].scope
  BY HostCancelledFacts DEF DropHost, RemoteInv
<1>8. Followed
  <2>1. ASSUME NEW c \in DOMAIN scopes
        PROVE  /\ c \in DOMAIN scopes' /\ Follows(scopes'[c], scopes[c])
               /\ HostStopped(scopes'[c], scopes[c])
               /\ wire'[c].down = wire[c].down /\ wire[c].lost \subseteq wire'[c].lost
               /\ scopes[c].sent \subseteq scopes'[c].sent \cup wire'[c].lost
    BY <1>3, <1>4, <1>6 DEF AllFollow
  <2>2. ASSUME NEW c \in DOMAIN scopes', c \notin DOMAIN scopes
        PROVE  c = Len(scopes) + 1
    BY <1>4, <2>2
  <2>3. ASSUME NEW c \in DOMAIN scopes', c \notin DOMAIN scopes
        PROVE  /\ scopes'[c].chain = <<>> /\ scopes'[c].run = "idle"
               /\ scopes'[c].aim = NoControl /\ ~scopes'[c].cut /\ scopes'[c].sent = {}
               /\ \A i \in Control : wire'[c].down[i] = 0
    BY <1>1, <1>2, <1>4, <1>6, <2>2, <2>3
  <2> QED
    BY <1>7, <2>1, <2>3 DEF Followed
<1>9. Typed'
  <2>1. current' \in 0..Len(scopes') /\ awaited' \in 0..Len(scopes') /\ Len(scopes') <= MaxScopes
    BY <1>4, <1>5 DEF RemoteInv, Typed
  <2>2. \A s \in DOMAIN sessions : sessions[s].scope <= Len(scopes')
    <3>1. \A s \in DOMAIN sessions : sessions[s] \in SessionRecord
      BY LenProperties, ElementOfSeq DEF RemoteInv, Typed
    <3>2. \A s \in DOMAIN sessions : sessions[s].scope \in Nat
      BY <3>1 DEF SessionRecord
    <3>3. \A s \in DOMAIN sessions : sessions[s].scope <= Len(scopes)
      BY DEF RemoteInv, Typed
    <3> QED
      BY <1>4, <1>5, <3>2, <3>3
  <2>3. /\ Len(wire') = Len(scopes') /\ session' \in 0..Len(sessions')
        /\ raising' \in Failure /\ raising'.by <= Len(sessions')
        /\ Len(sessions') <= MaxSessions
    BY <1>4, <1>5, <1>6, <1>7 DEF RemoteInv, Typed
  <2>4. /\ live' \in Manager \cup {NoManager} /\ retired' \in Manager \cup {NoManager}
        /\ ready' \in BOOLEAN /\ told' \in BOOLEAN /\ disposed' \in BOOLEAN
    BY DEF RemoteInv, Typed
  <2>5. \A s \in DOMAIN sessions' : sessions'[s].scope <= Len(scopes')
    BY <1>7, <2>2
  <2> QED
    BY <1>4, <1>6, <1>7, <2>1, <2>3, <2>4, <2>5 DEF Typed
<1>10. ReadyIsConnected' /\ UnreadyOwesNothing' /\ InputsComeLast' /\ CleanForHost'
  <2>1. current' # 0 /\ current' = Len(scopes') /\ scopes'[current'] = new
    BY <1>4, <1>5
  <2>2. ReadyIsConnected'
    BY <1>1, <1>7, <2>1 DEF ReadyIsConnected, HostGone
  <2>3. UnreadyOwesNothing'
    BY <1>1, <2>1 DEF UnreadyOwesNothing
  <2> QED
    BY <1>7, <2>2, <2>3 DEF InputsComeLast, CleanForHost, HostGone
<1>11. LossIsReported'
  BY <1>2, <1>4, <1>6 DEF LossIsReported
<1> QED
  BY <1>8, <1>9, <1>10, <1>11, HostGoes DEF RemoteInv

\* The manager stays and cannot be controlled: what is owed is given up.
LEMMA CapabilityGoes ==
    ASSUME RemoteInv, LoseCapability, ready' = FALSE, retired' = NoManager,
           live' \in Manager \cup {NoManager}, UNCHANGED <<raising, awaited, disposed>>
    PROVE  RemoteInv'
<1>1. /\ AllFollow(Detached(scopes))
      /\ \A c \in DOMAIN scopes : /\ Detached(scopes)[c].sent = scopes[c].sent
                                  /\ Detached(scopes)[c].chain = scopes[c].chain
  BY DetachedFollows
<1>2. /\ session' = 0 /\ sessions' \in Seq(SessionRecord) /\ Len(sessions') = Len(sessions)
      /\ DOMAIN sessions' = DOMAIN sessions
      /\ \A s \in DOMAIN sessions : sessions'[s].scope = sessions[s].scope
  BY HostCancelledFacts DEF LoseCapability, DropHost, RemoteInv
<1>3. /\ Len(scopes) \in Nat /\ DOMAIN scopes = 1..Len(scopes) /\ DOMAIN wire = DOMAIN scopes
      /\ \A c \in DOMAIN scopes : scopes[c] \in ScopeRecord /\ wire[c] \in WireRecord
      /\ current \in 0..Len(scopes) /\ Len(wire) = Len(scopes) /\ wire \in Seq(WireRecord)
  BY LenProperties, ElementOfSeq DEF RemoteInv, Typed
<1>4. /\ scopes' \in Seq(ScopeRecord) /\ Len(scopes') = Len(scopes)
      /\ DOMAIN scopes' = DOMAIN scopes
      /\ wire' \in Seq(WireRecord) /\ Len(wire') = Len(wire)
      /\ \A c \in DOMAIN scopes :
           /\ Follows(scopes'[c], scopes[c]) /\ HostStopped(scopes'[c], scopes[c])
           /\ wire'[c].down = wire[c].down /\ wire[c].lost \subseteq wire'[c].lost
           /\ scopes[c].sent \subseteq scopes'[c].sent \cup wire'[c].lost
           /\ c = current => /\ scopes'[c].sent = {}
                             /\ wire'[c].lost = wire[c].lost \cup scopes[c].sent
           /\ c # current => wire'[c] = wire[c]
  <2>1. CASE current = 0
    <3>1. UNCHANGED <<scopes, wire>> /\ scopes = Detached(scopes)
      BY <2>1 DEF LoseCapability, Detached
    <3> QED
      BY <1>1, <1>3, <2>1, <3>1 DEF AllFollow
  <2>2. CASE current # 0
    <3> DEFINE d == Detached(scopes)
               t == [d[current] EXCEPT !.sent = {}]
               u == [wire[current] EXCEPT !.lost = @ \cup scopes[current].sent]
    <3>1. scopes' = [d EXCEPT ![current] = t] /\ wire' = [wire EXCEPT ![current] = u]
      BY <2>2 DEF LoseCapability
    <3>2. current \in DOMAIN scopes /\ current \in DOMAIN d /\ d[current] \in ScopeRecord
      BY <1>1, <1>3, <2>2 DEF AllFollow, Follows
    <3>3. scopes[current].sent \subseteq Control
      BY <1>3, <3>2 DEF ScopeRecord
    <3>4. /\ u \in WireRecord /\ u.down = wire[current].down
          /\ u.lost = wire[current].lost \cup scopes[current].sent
      BY <1>3, <3>2, <3>3 DEF WireRecord
    <3>5. t \in ScopeRecord /\ t.sent = {} /\ Follows(t, scopes[current])
          /\ HostStopped(t, scopes[current])
      <4>1. Follows(d[current], scopes[current]) /\ HostStopped(d[current], scopes[current])
        BY <1>1, <3>2 DEF AllFollow
      <4> HIDE DEF d
      <4>2. /\ t \in ScopeRecord /\ t.sent = {} /\ t.manager = d[current].manager
            /\ t.unconfirmed = d[current].unconfirmed /\ t.todo = d[current].todo
            /\ t.aim = d[current].aim /\ t.failed = d[current].failed
            /\ t.run = d[current].run /\ t.chain = d[current].chain /\ t.cut = d[current].cut
        BY <3>2 DEF ScopeRecord
      <4> HIDE DEF t
      <4> QED
        BY <4>1, <4>2 DEF Follows, HostStopped
    <3> HIDE DEF d, t, u
    <3>6. d \in Seq(ScopeRecord) /\ DOMAIN d = DOMAIN scopes /\ Len(d) = Len(scopes)
      BY <1>1 DEF AllFollow, d
    <3>7. /\ scopes' \in Seq(ScopeRecord) /\ Len(scopes') = Len(d) /\ DOMAIN scopes' = DOMAIN d
          /\ scopes'[current] = t /\ \A c \in DOMAIN d : c # current => scopes'[c] = d[c]
      BY <3>1, <3>2, <3>5, <3>6, ReplaceFacts
    <3>8. /\ wire' \in Seq(WireRecord) /\ Len(wire') = Len(wire)
          /\ wire'[current] = u /\ \A c \in DOMAIN wire : c # current => wire'[c] = wire[c]
      BY <1>3, <3>1, <3>2, <3>4, ReplaceFacts
    <3>9. \A c \in DOMAIN scopes :
            Follows(d[c], scopes[c]) /\ HostStopped(d[c], scopes[c]) /\ d[c].sent = scopes[c].sent
      BY <1>1 DEF AllFollow, d
    <3> QED
      BY <1>3, <3>4, <3>5, <3>6, <3>7, <3>8, <3>9
  <2> QED
    BY <2>1, <2>2
<1>5. Followed
  BY <1>2, <1>4 DEF Followed
<1>6. Typed'
  <2>1. told' \in BOOLEAN /\ current' = current
    BY DEF LoseCapability, RemoteInv, Typed, Owing
  <2>2. /\ Len(sessions) \in Nat
        /\ \A s \in DOMAIN sessions : sessions[s].scope <= Len(scopes)
    BY LenProperties DEF RemoteInv, Typed
  <2>3. /\ current' \in 0..Len(scopes') /\ awaited' \in 0..Len(scopes')
        /\ session' \in 0..Len(sessions')
        /\ \A s \in DOMAIN sessions' : sessions'[s].scope <= Len(scopes')
    BY <1>2, <1>3, <1>4, <2>1, <2>2 DEF RemoteInv, Typed
  <2>4. /\ Len(scopes') <= MaxScopes /\ Len(sessions') <= MaxSessions
        /\ raising' \in Failure /\ raising'.by <= Len(sessions')
        /\ disposed' \in BOOLEAN /\ retired' \in Manager \cup {NoManager} /\ ready' \in BOOLEAN
    BY <1>2, <1>4 DEF RemoteInv, Typed
  <2> QED
    BY <1>2, <1>3, <1>4, <2>1, <2>3, <2>4 DEF Typed
<1>7. ReadyIsConnected' /\ UnreadyOwesNothing' /\ InputsComeLast' /\ CleanForHost'
  <2>1. current' = current
    BY DEF LoseCapability
  <2>2. ReadyIsConnected'
    BY <1>2, <1>4, <2>1 DEF ReadyIsConnected, HostGone, RemoteInv
  <2>3. UnreadyOwesNothing'
    BY <1>3, <1>4, <2>1 DEF UnreadyOwesNothing
  <2> QED
    BY <1>2, <2>2, <2>3 DEF InputsComeLast, CleanForHost, HostGone
<1>8. LossIsReported'
  <2>1. ASSUME NEW c \in DOMAIN scopes, c = Len(scopes), c # 0, NEW i \in Control,
               wire'[c].down[i] # 0, current # c \/ i \in wire'[c].lost
        PROVE  told'
    <3>1. wire[c].down[i] # 0
      BY <1>4, <2>1
    <3>2. CASE current # c \/ i \in wire[c].lost
      BY <2>1, <3>1, <3>2 DEF RemoteInv, LossIsReported, LoseCapability
    <3>3. CASE current = c /\ i \notin wire[c].lost
      BY <1>4, <2>1, <3>3 DEF LoseCapability, Owing
    <3> QED
      BY <3>2, <3>3
  <2>2. Len(scopes) # 0 => Len(scopes) \in DOMAIN scopes
    BY <1>3
  <2>3. Len(scopes') = Len(scopes) /\ current' = current
    BY <1>4 DEF LoseCapability
  <2> QED
    BY <2>1, <2>2, <2>3 DEF LossIsReported
<1> QED
  BY <1>5, <1>6, <1>7, <1>8, HostGoes DEF RemoteInv

\* The manager stays and can be controlled: only a spent cancellation is replaced.
LEMMA CapabilityStays ==
    ASSUME RemoteInv, KeepCapability, current # 0, ready' = TRUE, retired' = NoManager,
           live' = scopes[current].manager, UNCHANGED <<raising, awaited, disposed>>
    PROVE  RemoteInv'
<1> DEFINE t == [scopes[current] EXCEPT !.cancelled = FALSE]
<1>1. /\ Len(scopes) \in Nat /\ DOMAIN scopes = 1..Len(scopes)
      /\ \A c \in DOMAIN scopes : scopes[c] \in ScopeRecord
      /\ current \in DOMAIN scopes /\ scopes \in Seq(ScopeRecord)
  BY LenProperties, ElementOfSeq DEF RemoteInv, Typed
<1>2. /\ t \in ScopeRecord /\ t.manager = scopes[current].manager /\ t.sent = scopes[current].sent
      /\ t.unconfirmed = scopes[current].unconfirmed /\ t.chain = scopes[current].chain
      /\ t.run = scopes[current].run /\ t.todo = scopes[current].todo
      /\ t.aim = scopes[current].aim /\ t.failed = scopes[current].failed
      /\ t.cut = scopes[current].cut /\ ~t.cancelled
  BY <1>1 DEF ScopeRecord
<1>3. scopes' = [scopes EXCEPT ![current] = t]
      /\ UNCHANGED <<sessions, session, current, told, wire>>
  BY DEF KeepCapability
<1> HIDE DEF t
<1>4. /\ scopes' \in Seq(ScopeRecord) /\ Len(scopes') = Len(scopes)
      /\ DOMAIN scopes' = DOMAIN scopes /\ scopes'[current] = t
      /\ \A c \in DOMAIN scopes : c # current => scopes'[c] = scopes[c]
  BY <1>1, <1>2, <1>3, ReplaceFacts
<1>5. \A c \in DOMAIN scopes :
        /\ scopes'[c].manager = scopes[c].manager /\ scopes'[c].sent = scopes[c].sent
        /\ scopes'[c].unconfirmed = scopes[c].unconfirmed /\ scopes'[c].chain = scopes[c].chain
        /\ scopes'[c].run = scopes[c].run /\ scopes'[c].todo = scopes[c].todo
        /\ scopes'[c].aim = scopes[c].aim /\ scopes'[c].failed = scopes[c].failed
        /\ scopes'[c].cut = scopes[c].cut /\ HeadOf(scopes'[c]) = HeadOf(scopes[c])
  BY <1>2, <1>4 DEF HeadOf
<1>6. Typed'
  <2>1. live' \in Manager \cup {NoManager}
    BY <1>1 DEF ScopeRecord
  <2> QED
    BY <1>3, <1>4, <2>1 DEF RemoteInv, Typed
<1>7. RunsFirst' /\ InputsOfSessions' /\ CleanupCovers'
  BY <1>3, <1>4, <1>5 DEF RunsFirst, InputsOfSessions, CleanupCovers, RemoteInv
<1>8. WritesAim'
  BY <1>3, <1>4, <1>5 DEF WritesAim, RemoteInv
<1>9. ReadyIsConnected'
  BY <1>1, <1>2, <1>3, <1>4 DEF RemoteInv, ReadyIsConnected, HostGone
<1>10. UnreadyOwesNothing' /\ InputsComeLast' /\ CleanForHost'
  BY <1>1, <1>3, <1>4, <1>5
     DEF RemoteInv, UnreadyOwesNothing, InputsComeLast, CleanForHost, HostGone
<1>11. OnlyTheHostActs' /\ HoldsAreOwed' /\ HostsDoNotMix'
  BY <1>3, <1>4, <1>5 DEF RemoteInv, OnlyTheHostActs, HoldsAreOwed, HostsDoNotMix, HostGone
<1>12. LossIsReported'
  BY <1>3, <1>4 DEF RemoteInv, LossIsReported
<1> QED
  BY <1>6, <1>7, <1>8, <1>9, <1>10, <1>11, <1>12 DEF RemoteInv

\* Nothing changes for the delegate but the manager that it does not take back.
LEMMA RetiredIsIgnored ==
    ASSUME RemoteInv, ready => retired' = NoManager /\ live' = live,
           live' \in Manager \cup {NoManager},
           UNCHANGED <<retired, ready, current, sessions, session, told, scopes, wire, raising,
                       awaited, disposed>>
    PROVE  RemoteInv'
<1>1. Typed'
  BY DEF RemoteInv, Typed
<1>2. RunsFirst' /\ InputsOfSessions' /\ CleanupCovers' /\ WritesAim'
  BY DEF RemoteInv, RunsFirst, InputsOfSessions, CleanupCovers, WritesAim
<1>3. ReadyIsConnected'
  BY DEF RemoteInv, ReadyIsConnected, HostGone
<1>4. UnreadyOwesNothing' /\ InputsComeLast' /\ CleanForHost'
  BY DEF RemoteInv, UnreadyOwesNothing, InputsComeLast, CleanForHost, HostGone
<1>5. OnlyTheHostActs' /\ HoldsAreOwed' /\ HostsDoNotMix' /\ LossIsReported'
  BY DEF RemoteInv, OnlyTheHostActs, HoldsAreOwed, HostsDoNotMix, LossIsReported, HostGone
<1> QED
  BY <1>1, <1>2, <1>3, <1>4, <1>5 DEF RemoteInv

\* The cubit's state changes.
LEMMA ChangeStep ==
    ASSUME RemoteInv, NEW m \in Manager \cup {NoManager}, NEW capable \in BOOLEAN,
           Change(m, capable)
    PROVE  RemoteInv'
<1>1. /\ live' = m /\ ~disposed /\ UNCHANGED <<raising, awaited, disposed>>
      /\ capable => m # NoManager
  BY DEF Change
<1>2. CASE m # NoManager /\ m = retired
  <2>1. UNCHANGED <<retired, ready, current, sessions, session, told, scopes, wire>>
    BY <1>2 DEF Change, delegate
  <2>2. ~ready
    BY <1>2 DEF RemoteInv, ReadyIsConnected
  <2> QED
    BY <1>1, <2>1, <2>2, RetiredIsIgnored
<1>3. CASE ~(m # NoManager /\ m = retired) /\ Replace(m, capable)
  <2>1. retired' = NoManager /\ ready' = capable
    BY <1>3 DEF Change
  <2>2. CASE m = NoManager
    <3>1. /\ DropHost /\ current' = 0 /\ scopes' = Detached(scopes)
          /\ told' = (told \/ Owing) /\ UNCHANGED wire
      BY <1>3, <2>2 DEF Replace
    <3>2. awaited' \in 0..Len(scopes) /\ disposed' \in BOOLEAN
      BY <1>1 DEF RemoteInv, Typed
    <3> QED
      BY <1>1, <2>1, <2>2, <3>1, <3>2, ConnectionGoes
  <2>3. CASE m # NoManager
    <3>1. /\ DropHost /\ Len(scopes) < MaxScopes /\ current' = Len(scopes) + 1
          /\ scopes' = Append(Detached(scopes), [NewScope(m) EXCEPT !.cancelled = ~capable])
          /\ told' = FALSE /\ wire' = Append(wire, Untouched)
      BY <1>3, <2>3 DEF Replace
    <3> QED
      BY <1>1, <2>1, <2>3, <3>1, ConnectionComes
  <2> QED
    BY <2>2, <2>3
<1>4. CASE /\ ~(m # NoManager /\ m = retired)
           /\ m = IF current = 0 THEN NoManager ELSE scopes[current].manager
           /\ IF capable THEN KeepCapability ELSE LoseCapability
  <2>1. retired' = NoManager /\ ready' = capable
    BY <1>4 DEF Change
  <2>2. CASE capable
    BY <1>1, <1>4, <2>1, <2>2, CapabilityStays
  <2>3. CASE ~capable
    BY <1>1, <1>4, <2>1, <2>3, CapabilityGoes
  <2> QED
    BY <2>2, <2>3
<1> QED
  BY <1>2, <1>3, <1>4 DEF Change

-----------------------------------------------------------------------------
(* Hosts *)

\* clearConnection, called with the state as it is, or at the end of dispose
LEMMA ClearStep ==
    ASSUME RemoteInv, Clear, UNCHANGED <<live, raising, wire>>,
           disposed' \in BOOLEAN, awaited' \in 0..Len(scopes)
    PROVE  RemoteInv'
<1>1. retired' \in Manager \cup {NoManager} /\ live' \in Manager \cup {NoManager}
  BY DEF Clear, RemoteInv, Typed
<1> QED
  BY <1>1, ConnectionGoes DEF Clear

\* The connection of a host is the one that is shown.
LEMMA HostScope ==
    ASSUME RemoteInv, session # 0
    PROVE  /\ session \in DOMAIN sessions /\ sessions[session].scope = current
           /\ current \in DOMAIN scopes /\ current # 0
           /\ scopes \in Seq(ScopeRecord) /\ scopes[current] \in ScopeRecord
           /\ sessions[session] \in SessionRecord /\ session \in 1..MaxSessions
<1>1. /\ scopes \in Seq(ScopeRecord) /\ sessions \in Seq(SessionRecord)
      /\ session \in 0..Len(sessions) /\ current \in 0..Len(scopes)
      /\ Len(sessions) <= MaxSessions
  BY DEF RemoteInv, Typed
<1>2. sessions[session].scope = current /\ current # 0
  BY DEF RemoteInv, ReadyIsConnected
<1>3. session \in 1..Len(sessions) /\ current \in 1..Len(scopes)
  BY <1>1, <1>2, LenProperties
<1>4. /\ session \in DOMAIN sessions /\ current \in DOMAIN scopes /\ session \in 1..MaxSessions
      /\ scopes[current] \in ScopeRecord /\ sessions[session] \in SessionRecord
  BY <1>1, <1>3, LenProperties, ElementOfSeq
<1> QED
  BY <1>1, <1>2, <1>4

\* A host goes, and a cleanup is chained to its connection.
LEMMA HostCloses ==
    ASSUME RemoteInv, current # 0, session' = 0 \/ session' = session,
           scopes' = Chained(WithoutHost(scopes), current, Cleanup),
           sessions' = HostCancelled, session # 0,
           told' \in BOOLEAN, told => told', raising' \in Failure, raising'.by <= Len(sessions),
           awaited' \in 0..Len(scopes),
           UNCHANGED <<live, retired, ready, current, disposed, wire>>
    PROVE  RemoteInv'
<1>1. /\ session \in DOMAIN sessions /\ sessions[session].scope = current
      /\ current \in DOMAIN scopes
  BY HostScope
<1>2. /\ AllFollow(scopes')
      /\ \A d \in DOMAIN scopes :
           /\ scopes'[d].cancelled = scopes[d].cancelled /\ scopes'[d].cut = scopes[d].cut
           /\ scopes'[d].sent = scopes[d].sent
  BY <1>1, CleanupChained DEF RemoteInv
<1>3. /\ sessions' \in Seq(SessionRecord) /\ Len(sessions') = Len(sessions)
      /\ DOMAIN sessions' = DOMAIN sessions
      /\ \A s \in DOMAIN sessions : sessions'[s].scope = sessions[s].scope
      /\ sessions'[session].cancelled
  BY HostCancelledFacts DEF RemoteInv
<1>4. HostGone'
  BY <1>3 DEF HostGone
<1>5. Followed
  BY <1>2, <1>3 DEF AllFollow, Followed
<1>6. Typed'
  <2>1. scopes' \in Seq(ScopeRecord) /\ Len(scopes') = Len(scopes)
    BY <1>2 DEF AllFollow
  <2>2. /\ Len(sessions) \in Nat /\ Len(scopes) \in Nat
        /\ \A s \in DOMAIN sessions : sessions[s].scope <= Len(scopes)
    BY LenProperties DEF RemoteInv, Typed
  <2>3. /\ session' \in 0..Len(sessions')
        /\ \A s \in DOMAIN sessions' : sessions'[s].scope <= Len(scopes')
    BY <1>3, <2>1, <2>2 DEF RemoteInv, Typed
  <2> QED
    BY <1>3, <2>1, <2>3 DEF RemoteInv, Typed
<1>7. ReadyIsConnected' /\ UnreadyOwesNothing'
  <2>1. scopes'[current].manager = scopes[current].manager /\ Len(scopes') = Len(scopes)
    BY <1>1, <1>2 DEF AllFollow, Follows
  <2> QED
    BY <1>1, <1>2, <1>3, <1>4, <2>1 DEF RemoteInv, ReadyIsConnected, UnreadyOwesNothing
<1>8. InputsComeLast' /\ CleanForHost'
  BY <1>4 DEF InputsComeLast, CleanForHost
<1>9. LossIsReported'
  <2>1. Len(scopes') = Len(scopes)
    BY <1>2 DEF AllFollow
  <2> QED
    BY <2>1 DEF RemoteInv, LossIsReported
<1> QED
  BY <1>5, <1>6, <1>7, <1>8, <1>9, HostGoes DEF RemoteInv

\* closeSession: the cleanup is chained behind all inputs of the host.
LEMMA CloseStep == ASSUME RemoteInv, Close PROVE RemoteInv'
<1>1. /\ session # 0 /\ session' = 0 /\ sessions' = HostCancelled
      /\ scopes' = Chained(WithoutHost(scopes), sessions[session].scope, Cleanup)
      /\ UNCHANGED <<live, retired, ready, current, told, raising, awaited, disposed, wire>>
  BY DEF Close, DropHost, CloseHost
<1>2. sessions[session].scope = current /\ current # 0
  BY <1>1, HostScope
<1>3. /\ told' \in BOOLEAN /\ raising' \in Failure
      /\ raising'.by <= Len(sessions) /\ awaited' \in 0..Len(scopes)
  BY <1>1 DEF RemoteInv, Typed
<1>4. told => told'
  BY <1>1
<1>5. scopes' = Chained(WithoutHost(scopes), current, Cleanup)
  BY <1>1, <1>2
<1> QED
  BY <1>1, <1>2, <1>3, <1>4, <1>5, HostCloses

\* dispose, up to its wait for the cleanup and after it.
LEMMA DisposeStep == ASSUME RemoteInv, Dispose \/ Disposed PROVE RemoteInv'
<1>1. UNCHANGED <<live, raising, wire>>
  BY DEF Dispose, Disposed
<1>2. CASE Disposed \/ session = 0
  <2>1. Clear /\ disposed' = TRUE /\ awaited' \in {0, awaited}
    BY <1>2 DEF Dispose, Disposed
  <2>2. disposed' \in BOOLEAN /\ awaited' \in 0..Len(scopes)
    BY <2>1, LenProperties DEF RemoteInv, Typed
  <2> QED
    BY <1>1, <2>1, <2>2, ClearStep
<1>3. CASE Dispose /\ session # 0
  <2>1. /\ session' = 0 /\ sessions' = HostCancelled /\ awaited' = sessions[session].scope
        /\ scopes' = Chained(WithoutHost(scopes), sessions[session].scope, Cleanup)
        /\ UNCHANGED <<retired, ready, current, told, disposed>>
    BY <1>3 DEF Dispose, DropHost, CloseHost
  <2>2. sessions[session].scope = current /\ current # 0
    BY <1>3, HostScope
  <2>3. /\ told' \in BOOLEAN /\ raising' \in Failure
        /\ raising'.by <= Len(sessions) /\ awaited' \in 0..Len(scopes)
    BY <1>1, <2>1, <2>2 DEF RemoteInv, Typed
  <2>4. told => told'
    BY <2>1
  <2>5. scopes' = Chained(WithoutHost(scopes), current, Cleanup)
    BY <2>1, <2>2
  <2> QED
    BY <1>1, <1>3, <2>1, <2>2, <2>3, <2>4, <2>5, HostCloses
<1> QED
  BY <1>2, <1>3

\* The catch block of send: the host is cancelled and its cleanup chained.
LEMMA CatchStep == ASSUME RemoteInv, Catch PROVE RemoteInv'
<1>1. /\ raising' = NoFailure
      /\ UNCHANGED <<live, retired, ready, current, session, awaited, disposed, wire>>
  BY DEF Catch
<1>2. /\ raising' \in Failure /\ raising'.by <= Len(sessions) /\ Len(sessions) \in Nat
  BY <1>1, LenProperties DEF RemoteInv, Typed, NoFailure, Failure
<1>3. CASE /\ session = raising.by /\ ~HostGone
           /\ IsCurrent(raising.scope) /\ ~raising.cancelled
  <2>1. /\ told' = TRUE /\ sessions' = HostCancelled
        /\ scopes' = Chained(WithoutHost(scopes), raising.scope, Cleanup)
    BY <1>3 DEF Catch
  <2>2. raising.scope = current /\ session # 0
    BY <1>3 DEF IsCurrent, HostGone
  <2>3. current # 0 /\ awaited' \in 0..Len(scopes)
    BY <1>1, <2>2, HostScope DEF RemoteInv, Typed
  <2> QED
    BY <1>1, <1>2, <2>1, <2>2, <2>3, HostCloses
<1>4. CASE ~(/\ session = raising.by /\ ~HostGone
             /\ IsCurrent(raising.scope) /\ ~raising.cancelled)
  <2>1. UNCHANGED <<told, sessions, scopes>>
    BY <1>4 DEF Catch
  <2>2. Typed'
    BY <1>1, <1>2, <2>1 DEF RemoteInv, Typed
  <2>3. RunsFirst' /\ InputsOfSessions' /\ CleanupCovers' /\ WritesAim'
    BY <1>1, <2>1 DEF RemoteInv, RunsFirst, InputsOfSessions, CleanupCovers, WritesAim
  <2>4. ReadyIsConnected' /\ UnreadyOwesNothing' /\ InputsComeLast' /\ CleanForHost'
    BY <1>1, <2>1 DEF RemoteInv, ReadyIsConnected, UnreadyOwesNothing, InputsComeLast,
      CleanForHost, HostGone
  <2>5. OnlyTheHostActs' /\ HoldsAreOwed' /\ HostsDoNotMix' /\ LossIsReported'
    BY <1>1, <2>1 DEF RemoteInv, OnlyTheHostActs, HoldsAreOwed, HostsDoNotMix,
      LossIsReported, HostGone
  <2> QED
    BY <2>2, <2>3, <2>4, <2>5 DEF RemoteInv
<1> QED
  BY <1>3, <1>4

\* openSession: the new host's inputs come after the cleanup of the old one.
LEMMA OpenStep == ASSUME RemoteInv, Open PROVE RemoteInv'
<1> DEFINE before == IF session = 0 THEN sessions ELSE HostCancelled
           host == [scope |-> current, held |-> {}, cancelled |-> FALSE]
<1>1. /\ ~disposed /\ ready /\ ~scopes[current].unconfirmed
      /\ scopes[current].sent = {} \/ ~HostGone
      /\ Len(sessions) < MaxSessions
      /\ sessions' = Append(before, host) /\ session' = Len(sessions) + 1
      /\ scopes' = IF session = 0 THEN scopes ELSE CloseHost
      /\ UNCHANGED <<live, retired, ready, current, told, raising, awaited, disposed, wire>>
  BY DEF Open
<1>2. /\ scopes \in Seq(ScopeRecord) /\ sessions \in Seq(SessionRecord)
      /\ Len(scopes) \in Nat /\ DOMAIN scopes = 1..Len(scopes) /\ Len(scopes) <= MaxScopes
      /\ Len(sessions) \in Nat /\ DOMAIN sessions = 1..Len(sessions)
      /\ current \in 0..Len(scopes)
      /\ \A s \in DOMAIN sessions : sessions[s].scope <= Len(scopes)
      /\ \A c \in DOMAIN scopes : scopes[c] \in ScopeRecord
  BY LenProperties, ElementOfSeq DEF RemoteInv, Typed
<1>3. current # 0 /\ current \in DOMAIN scopes /\ current = Len(scopes)
  BY <1>1, <1>2 DEF RemoteInv, ReadyIsConnected
<1>4. /\ before \in Seq(SessionRecord) /\ Len(before) = Len(sessions)
      /\ DOMAIN before = DOMAIN sessions
      /\ \A s \in DOMAIN sessions : before[s].scope = sessions[s].scope
  BY <1>2, HostCancelledFacts DEF RemoteInv
<1>5. host \in SessionRecord /\ host.scope = current /\ ~host.cancelled
  BY <1>2, <1>3 DEF SessionRecord
<1> HIDE DEF before, host
<1>6. /\ sessions' \in Seq(SessionRecord) /\ Len(sessions') = Len(sessions) + 1
      /\ session' \in DOMAIN sessions' /\ sessions'[session'] = host
      /\ \A s \in DOMAIN sessions :
            s \in DOMAIN sessions' /\ sessions'[s].scope = sessions[s].scope
      /\ \A s \in DOMAIN sessions' : s \in DOMAIN sessions \/ s = session'
  <2>1. /\ sessions' \in Seq(SessionRecord) /\ Len(sessions') = Len(before) + 1
        /\ Len(before) + 1 \in DOMAIN sessions' /\ sessions'[Len(before) + 1] = host
        /\ \A s \in DOMAIN before : s \in DOMAIN sessions' /\ sessions'[s] = before[s]
        /\ \A s \in DOMAIN sessions' : s \in DOMAIN before \/ s = Len(before) + 1
    BY <1>1, <1>4, <1>5, AppendFacts
  <2> QED
    BY <1>1, <1>4, <2>1
<1>7. /\ AllFollow(scopes')
      /\ \A d \in DOMAIN scopes :
           /\ scopes'[d].cancelled = scopes[d].cancelled /\ scopes'[d].cut = scopes[d].cut
           /\ scopes'[d].sent = scopes[d].sent
      /\ session # 0 => scopes'[current].chain = Append(scopes[current].chain, Cleanup)
  <2>1. CASE session = 0
    BY <1>1, <1>2, <2>1 DEF AllFollow, Follows, HostStopped
  <2>2. CASE session # 0
    <3>1. scopes' = Chained(WithoutHost(scopes), current, Cleanup)
      BY <1>1, <2>2, HostScope DEF CloseHost
    <3> QED
      BY <1>3, <3>1, CleanupChained DEF RemoteInv
  <2> QED
    BY <2>1, <2>2
<1>8. Followed
  BY <1>1, <1>6, <1>7 DEF AllFollow, Followed
<1>9. Typed'
  <2>1. scopes' \in Seq(ScopeRecord) /\ Len(scopes') = Len(scopes)
    BY <1>7 DEF AllFollow
  <2>2. \A s \in DOMAIN sessions' : sessions'[s].scope <= Len(scopes')
    BY <1>2, <1>3, <1>5, <1>6, <2>1
  <2>3. /\ Len(sessions') <= MaxSessions /\ session' \in 0..Len(sessions')
        /\ raising.by <= Len(sessions')
    <3>1. raising.by \in Nat /\ raising.by <= Len(sessions)
      BY DEF RemoteInv, Typed, Failure
    <3> QED
      BY <1>1, <1>2, <1>6, <3>1
  <2> QED
    BY <1>1, <1>6, <2>1, <2>2, <2>3 DEF RemoteInv, Typed
<1>10. ReadyIsConnected' /\ UnreadyOwesNothing'
  <2>1. scopes'[current].manager = scopes[current].manager /\ Len(scopes') = Len(scopes)
    BY <1>3, <1>7 DEF AllFollow, Follows
  <2> QED
    BY <1>1, <1>3, <1>5, <1>6, <1>7, <2>1 DEF RemoteInv, ReadyIsConnected, UnreadyOwesNothing
<1>11. scopes[current].chain \in Seq(Ops) /\ Cleanup \in Ops
  BY <1>2, <1>3 DEF ScopeRecord, Ops
<1>12. InputsComeLast'
  <2>1. \A j \in DOMAIN scopes'[current].chain :
            \/ scopes'[current].chain[j].by = 0
            \/ scopes'[current].chain[j].by \in DOMAIN sessions
    <3>1. \A j \in DOMAIN scopes[current].chain :
            \/ scopes[current].chain[j].by = 0
            \/ scopes[current].chain[j].by \in DOMAIN sessions
      BY <1>3 DEF RemoteInv, InputsOfSessions
    <3>2. CASE scopes'[current].chain = scopes[current].chain
      BY <3>1, <3>2
    <3>3. CASE scopes'[current].chain = Append(scopes[current].chain, Cleanup)
      <4>1. Cleanup.by = 0
        BY DEF Cleanup, Op
      <4>2. \A j \in DOMAIN scopes'[current].chain :
                \/ /\ j \in DOMAIN scopes[current].chain
                   /\ scopes'[current].chain[j] = scopes[current].chain[j]
                \/ scopes'[current].chain[j] = Cleanup
        BY <1>11, <3>3, AppendFacts
      <4> QED
        BY <3>1, <4>1, <4>2
    <3> QED
      BY <1>3, <1>7, <3>2, <3>3 DEF AllFollow, Follows
  <2>2. session' # 0 /\ session' \notin DOMAIN sessions
    BY <1>1, <1>2
  <2> QED
    BY <1>1, <2>1, <2>2 DEF InputsComeLast
<1>13. CleanForHost'
  <2>1. CASE session = 0
    <3>1. scopes[current].sent = {}
      BY <1>1, <2>1 DEF HostGone
    <3>2. \A i \in Control \ wire[current].lost : wire[current].down[i] = 0
      BY <1>3, <3>1 DEF RemoteInv, HoldsAreOwed
    <3> QED
      BY <1>1, <3>2 DEF CleanForHost
  <2>2. CASE session # 0
    <3>1. \E j \in DOMAIN scopes'[current].chain : scopes'[current].chain[j] = Cleanup
      BY <1>7, <1>11, <2>2, AppendFacts
    <3> QED
      BY <1>1, <3>1 DEF CleanForHost
  <2> QED
    BY <2>1, <2>2
<1>14. LossIsReported'
  <2>1. Len(scopes') = Len(scopes)
    BY <1>7 DEF AllFollow
  <2> QED
    BY <1>1, <2>1 DEF RemoteInv, LossIsReported
<1> QED
  BY <1>8, <1>9, <1>10, <1>12, <1>13, <1>14, HostGoes DEF RemoteInv

-----------------------------------------------------------------------------
(* The chain of a connection *)

\* What the invariant says of one connection.
Fits(c) ==
    LET sc == scopes[c]
        op == HeadOf(sc)
    IN  /\ sc.chain = <<>> => sc.run = "idle"
        /\ sc.run = "idle" => sc.aim = NoControl
        /\ sc.cut => op = Cleanup
        /\ \A j \in DOMAIN sc.chain : sc.chain[j].by # 0 =>
              sc.chain[j].by \in DOMAIN sessions /\ sessions[sc.chain[j].by].scope = c
        /\ sc.run = "queued" /\ op.kind = "push" => sc.aim = op.control /\ sc.aim \in sc.sent
        /\ sc.run \in {"queued", "written"} /\ op.kind \in {"release", "cleanup"} =>
              sc.aim \in Control
        /\ sc.run = "written" /\ op.kind \in {"release", "cleanup"} =>
              wire[c].down[sc.aim] = 0
        /\ sc.run # "idle" /\ op = Cleanup => sc.failed \/ sc.sent \subseteq sc.todo \cup {sc.aim}
        /\ sc.run = "queued" /\ op # Cleanup =>
              /\ session = op.by /\ ~HostGone
              /\ \A i \in Control \ wire[c].lost : wire[c].down[i] \in {0, op.by}
        /\ \A i \in Control : wire[c].down[i] # 0 => i \in sc.sent \cup wire[c].lost

\* Every connection is as the invariant has it.
LEMMA InvFits ==
    ASSUME RemoteInv, NEW c \in DOMAIN scopes
    PROVE  /\ Fits(c) /\ scopes[c] \in ScopeRecord /\ scopes \in Seq(ScopeRecord)
           /\ scopes[c].chain # <<>> => /\ HeadOf(scopes[c]) = Head(scopes[c].chain)
                                        /\ HeadOf(scopes[c]) \in Ops
           /\ scopes[c].run # "idle" => scopes[c].chain # <<>>
           /\ wire[c] \in WireRecord /\ wire \in Seq(WireRecord) /\ c \in DOMAIN wire
<1>1. /\ scopes[c] \in ScopeRecord /\ scopes \in Seq(ScopeRecord)
      /\ wire[c] \in WireRecord /\ wire \in Seq(WireRecord) /\ c \in DOMAIN wire
  BY LenProperties, ElementOfSeq DEF RemoteInv, Typed
<1>2. /\ scopes[c].chain # <<>> => /\ HeadOf(scopes[c]) = Head(scopes[c].chain)
                                   /\ HeadOf(scopes[c]) \in Ops
  BY <1>1, HeadOfFacts
<1>3. scopes[c].run # "idle" => scopes[c].chain # <<>>
  BY DEF RemoteInv, RunsFirst
<1>4. scopes[c].run = "queued" /\ HeadOf(scopes[c]) # Cleanup =>
          /\ session = HeadOf(scopes[c]).by /\ ~HostGone
          /\ \A i \in Control \ wire[c].lost : wire[c].down[i] \in {0, HeadOf(scopes[c]).by}
  BY <1>2, <1>3 DEF RemoteInv, OnlyTheHostActs, HostsDoNotMix
<1>5. Fits(c)
  BY <1>4 DEF RemoteInv, RunsFirst, InputsOfSessions, WritesAim, CleanupCovers, HoldsAreOwed,
    Fits
<1> QED
  BY <1>1, <1>2, <1>3, <1>5

\* What it says of the connection of the live host, and of the latest one.
HostFits(c) ==
    LET sc == scopes[c] IN
    c = current =>
        /\ ~ready \/ sc.cut => sc.sent = {}
        /\ ~HostGone => \A j, k \in DOMAIN sc.chain :
              sc.chain[j].by = session /\ k > j => sc.chain[k] # Cleanup
        /\ ~HostGone /\ ~sc.unconfirmed =>
              \/ \E j \in DOMAIN sc.chain : sc.chain[j] = Cleanup
              \/ \A i \in Control \ wire[c].lost : wire[c].down[i] \in {0, session}

LossFits(c) ==
    c = Len(scopes) => \A i \in Control :
        wire[c].down[i] # 0 /\ (current # c \/ i \in wire[c].lost) => told

\* So are the one that is shown and the latest one.
LEMMA InvHostFits ==
    ASSUME RemoteInv, NEW c \in DOMAIN scopes
    PROVE  HostFits(c) /\ LossFits(c)
<1>1. HostFits(c)
  <2>1. c = current => current # 0
    BY LenProperties DEF RemoteInv, Typed
  <2> QED
    BY <2>1 DEF RemoteInv, UnreadyOwesNothing, InputsComeLast, CleanForHost, HostFits
<1>2. LossFits(c)
  <2>1. c = Len(scopes) => Len(scopes) # 0
    BY LenProperties DEF RemoteInv, Typed
  <2> QED
    BY <2>1 DEF RemoteInv, LossIsReported, LossFits
<1> QED
  BY <1>1, <1>2

\* A step of one connection, which becomes t.
Moves(c, t) ==
    /\ t \in ScopeRecord /\ t.manager = scopes[c].manager /\ t.cancelled = scopes[c].cancelled
    /\ scopes' = [scopes EXCEPT ![c] = t]
    /\ wire' \in Seq(WireRecord) /\ Len(wire') = Len(wire)
    /\ \A d \in DOMAIN wire : d # c => wire'[d] = wire[d]
    /\ sessions' \in Seq(SessionRecord) /\ Len(sessions') = Len(sessions)
    /\ \A s \in DOMAIN sessions : /\ sessions'[s].scope = sessions[s].scope
                                  /\ sessions'[s].cancelled = sessions[s].cancelled
    /\ raising' \in Failure /\ raising'.by <= Len(sessions)
    /\ told' \in BOOLEAN /\ (told => told')
    /\ UNCHANGED <<live, retired, ready, current, session, awaited, disposed>>

\* The connection as it becomes is all that has to be looked at.
LEMMA MoveKeepsInv ==
    ASSUME RemoteInv, NEW c \in DOMAIN scopes, NEW t, Moves(c, t),
           Fits(c)', HostFits(c)', LossFits(c)'
    PROVE  RemoteInv'
<1>1. /\ scopes \in Seq(ScopeRecord) /\ Len(scopes) \in Nat /\ DOMAIN scopes = 1..Len(scopes)
      /\ Len(sessions) \in Nat /\ DOMAIN sessions = 1..Len(sessions)
      /\ DOMAIN wire = DOMAIN scopes /\ session \in 0..Len(sessions)
      /\ DOMAIN sessions' = DOMAIN sessions /\ current \in 0..Len(scopes)
      /\ \A d \in DOMAIN scopes : scopes[d] \in ScopeRecord
  BY LenProperties, ElementOfSeq DEF RemoteInv, Typed, Moves
<1>2. t \in ScopeRecord /\ scopes' = [scopes EXCEPT ![c] = t]
  BY DEF Moves
<1>3. /\ scopes' \in Seq(ScopeRecord) /\ Len(scopes') = Len(scopes)
      /\ DOMAIN scopes' = DOMAIN scopes /\ scopes'[c] = t
      /\ \A d \in DOMAIN scopes : d # c => scopes'[d] = scopes[d]
  BY <1>1, <1>2, ReplaceFacts
<1>4. /\ HostGone' = HostGone
      /\ UNCHANGED <<live, retired, ready, current, session, awaited, disposed>>
      /\ \A s \in DOMAIN sessions : sessions'[s].scope = sessions[s].scope
      /\ DOMAIN sessions' = DOMAIN sessions
  BY <1>1 DEF HostGone, Moves
<1>5. \A d \in DOMAIN scopes : d # c => scopes'[d] = scopes[d] /\ wire'[d] = wire[d]
  BY <1>1, <1>3 DEF Moves
<1>6. Typed'
  BY <1>1, <1>3, <1>4 DEF RemoteInv, Typed, Moves
<1>7. \A d \in DOMAIN scopes : Fits(d)'
  <2>1. ASSUME NEW d \in DOMAIN scopes, d # c
        PROVE  Fits(d)'
    <3>1. Fits(d) /\ scopes'[d] = scopes[d] /\ wire'[d] = wire[d]
      BY <1>5, <2>1, InvFits
    <3> QED
      BY <1>4, <3>1 DEF Fits, HeadOf
  <2> QED
    BY <2>1
<1>8. \A d \in DOMAIN scopes : HostFits(d)' /\ LossFits(d)'
  <2>1. ASSUME NEW d \in DOMAIN scopes, d # c
        PROVE  HostFits(d)' /\ LossFits(d)'
    <3>1. HostFits(d) /\ LossFits(d) /\ scopes'[d] = scopes[d] /\ wire'[d] = wire[d]
      BY <1>5, <2>1, InvHostFits
    <3>2. told => told'
      BY DEF Moves
    <3> QED
      BY <1>3, <1>4, <3>1, <3>2 DEF HostFits, LossFits
  <2> QED
    BY <2>1
<1>9. \A d \in DOMAIN scopes' : scopes'[d].chain # <<>> => HeadOf(scopes'[d]) = Head(scopes'[d].chain)
  BY DEF HeadOf
<1>10. RunsFirst' /\ InputsOfSessions' /\ WritesAim' /\ CleanupCovers'
  BY <1>3, <1>7 DEF Fits, RunsFirst, InputsOfSessions, WritesAim, CleanupCovers, HeadOf
<1>11. OnlyTheHostActs' /\ HostsDoNotMix' /\ HoldsAreOwed'
  <2>1. \A d \in DOMAIN scopes' : scopes'[d].run = "queued" => scopes'[d].chain # <<>>
    BY <1>10 DEF RunsFirst
  <2> QED
    BY <1>3, <1>7, <1>9, <2>1 DEF Fits, OnlyTheHostActs, HostsDoNotMix, HoldsAreOwed
<1>12. ReadyIsConnected'
  <2>1. \A d \in DOMAIN scopes : /\ scopes'[d].manager = scopes[d].manager
                                 /\ scopes'[d].cancelled = scopes[d].cancelled
    BY <1>3 DEF Moves
  <2>2. current # 0 => current \in DOMAIN scopes
    BY <1>1
  <2>3. session # 0 => session \in DOMAIN sessions
    BY <1>1
  <2> QED
    BY <1>3, <1>4, <2>1, <2>2, <2>3 DEF RemoteInv, ReadyIsConnected
<1>13. UnreadyOwesNothing' /\ InputsComeLast' /\ CleanForHost'
  <2>1. \A d \in DOMAIN scopes : d = current =>
            /\ ~ready \/ scopes'[d].cut => scopes'[d].sent = {}
            /\ ~HostGone => \A j, k \in DOMAIN scopes'[d].chain :
                  scopes'[d].chain[j].by = session /\ k > j => scopes'[d].chain[k] # Cleanup
            /\ ~HostGone /\ ~scopes'[d].unconfirmed =>
                  \/ \E j \in DOMAIN scopes'[d].chain : scopes'[d].chain[j] = Cleanup
                  \/ \A i \in Control \ wire'[d].lost : wire'[d].down[i] \in {0, session}
    BY <1>4, <1>8 DEF HostFits
  <2>2. ~HostGone => current # 0
    BY DEF RemoteInv, ReadyIsConnected
  <2>3. current # 0 => current \in DOMAIN scopes
    BY <1>1
  <2> QED
    BY <1>4, <2>1, <2>2, <2>3 DEF UnreadyOwesNothing, InputsComeLast, CleanForHost
<1>14. LossIsReported'
  <2>1. \A d \in DOMAIN scopes : d = Len(scopes) => \A i \in Control :
            wire'[d].down[i] # 0 /\ (current # d \/ i \in wire'[d].lost) => told'
    BY <1>3, <1>4, <1>8 DEF LossFits
  <2>2. Len(scopes) # 0 => Len(scopes) \in DOMAIN scopes
    BY <1>1
  <2> QED
    BY <1>3, <1>4, <2>1, <2>2 DEF LossIsReported
<1> QED
  BY <1>6, <1>10, <1>11, <1>12, <1>13, <1>14 DEF RemoteInv

\* How to show that it holds of a connection after a step.
LEMMA FitsNext ==
    ASSUME NEW c, NEW t, NEW op, scopes'[c] = t, HeadOf(t) = op,
           t.chain = <<>> => t.run = "idle",
           t.run = "idle" => t.aim = NoControl,
           t.cut => op = Cleanup,
           \A j \in DOMAIN t.chain : t.chain[j].by # 0 =>
              t.chain[j].by \in DOMAIN sessions' /\ sessions'[t.chain[j].by].scope = c,
           t.run = "queued" /\ op.kind = "push" => t.aim = op.control /\ t.aim \in t.sent,
           t.run \in {"queued", "written"} /\ op.kind \in {"release", "cleanup"} =>
              t.aim \in Control,
           t.run = "written" /\ op.kind \in {"release", "cleanup"} =>
              wire'[c].down[t.aim] = 0,
           t.run # "idle" /\ op = Cleanup => t.failed \/ t.sent \subseteq t.todo \cup {t.aim},
           t.run = "queued" /\ op # Cleanup =>
              /\ session' = op.by /\ ~HostGone'
              /\ \A i \in Control \ wire'[c].lost : wire'[c].down[i] \in {0, op.by},
           \A i \in Control : wire'[c].down[i] # 0 => i \in t.sent \cup wire'[c].lost
    PROVE  Fits(c)'
  BY DEF Fits, HeadOf

\* Most steps of a chain leave the sessions and the wire alone.
LEMMA QuietMove ==
    ASSUME RemoteInv, NEW c \in DOMAIN scopes, NEW t \in ScopeRecord,
           t.manager = scopes[c].manager, t.cancelled = scopes[c].cancelled,
           scopes' = [scopes EXCEPT ![c] = t],
           raising' \in Failure, raising'.by <= Len(sessions),
           told' \in BOOLEAN, told => told',
           UNCHANGED <<live, retired, ready, current, sessions, session, awaited, disposed, wire>>
    PROVE  Moves(c, t) /\ scopes'[c] = t /\ wire'[c] = wire[c] /\ Len(scopes') = Len(scopes)
<1>1. scopes \in Seq(ScopeRecord) /\ wire \in Seq(WireRecord) /\ sessions \in Seq(SessionRecord)
  BY DEF RemoteInv, Typed
<1>2. scopes'[c] = t /\ Len(scopes') = Len(scopes)
  BY <1>1, ReplaceFacts
<1> QED
  BY <1>1, <1>2 DEF Moves

\* send: an input is chained behind everything else.
LEMMA SendStep ==
    ASSUME RemoteInv, NEW kind \in {"push", "release", "turn"}, NEW i \in Control \cup {NoControl},
           kind = "turn" <=> i = NoControl, Send(kind, i)
    PROVE  RemoteInv'
<1> DEFINE op == Op(kind, session, i)
           sc == scopes[current]
           t == scopes'[current]
<1>1. /\ session # 0 /\ ~HostGone /\ ready
      /\ scopes' = Chained(scopes, sessions[session].scope, op)
      /\ UNCHANGED <<live, retired, ready, current, session, told, raising, awaited, disposed,
                     wire>>
  BY DEF Send, Accepted, HostGone
<1>2. /\ session \in DOMAIN sessions /\ sessions[session].scope = current
      /\ current \in DOMAIN scopes /\ current # 0 /\ session \in 1..MaxSessions
      /\ sessions[session] \in SessionRecord
  BY <1>1, HostScope
<1>3. op \in Ops /\ op # Cleanup /\ op.by = session
  BY <1>2 DEF Op, Ops, Cleanup
<1>4. /\ scopes \in Seq(ScopeRecord) /\ wire \in Seq(WireRecord)
      /\ sessions \in Seq(SessionRecord) /\ sc \in ScopeRecord /\ DOMAIN wire = DOMAIN scopes
      /\ sc.chain \in Seq(Ops)
  <2>1. scopes \in Seq(ScopeRecord) /\ wire \in Seq(WireRecord) /\ sessions \in Seq(SessionRecord)
        /\ Len(scopes) = Len(wire)
    BY DEF RemoteInv, Typed
  <2>2. sc \in ScopeRecord
    BY <1>2, InvFits
  <2> QED
    BY <2>1, <2>2, LenProperties DEF ScopeRecord
<1>5. scopes' = Chained(scopes, current, op)
  BY <1>1, <1>2
<1> HIDE DEF op
<1>6. /\ scopes' \in Seq(ScopeRecord) /\ Len(scopes') = Len(scopes)
      /\ t \in ScopeRecord /\ t.chain = Append(sc.chain, op)
      /\ t.manager = sc.manager /\ t.sent = sc.sent
      /\ t.unconfirmed = sc.unconfirmed /\ t.cancelled = sc.cancelled
      /\ t.run = sc.run /\ t.todo = sc.todo /\ t.aim = sc.aim
      /\ t.failed = sc.failed /\ t.cut = sc.cut
  <2> DEFINE w == Chained(scopes, current, op)
  <2>1. /\ w \in Seq(ScopeRecord) /\ Len(w) = Len(scopes)
        /\ w[current] \in ScopeRecord /\ w[current].chain = Append(sc.chain, op)
        /\ w[current].manager = sc.manager /\ w[current].sent = sc.sent
        /\ w[current].unconfirmed = sc.unconfirmed /\ w[current].cancelled = sc.cancelled
        /\ w[current].run = sc.run /\ w[current].todo = sc.todo /\ w[current].aim = sc.aim
        /\ w[current].failed = sc.failed /\ w[current].cut = sc.cut
    BY <1>2, <1>3, <1>4, ChainedFacts
  <2>2. scopes' = w
    BY <1>5
  <2> HIDE DEF w
  <2> QED
    BY <2>1, <2>2
<1>7. scopes' = [scopes EXCEPT ![current] = t]
  <2>1. scopes' = [scopes EXCEPT ![current] = [sc EXCEPT !.chain = Append(sc.chain, op)]]
    BY <1>5 DEF Chained
  <2> QED
    BY <1>2, <2>1
<1>8. /\ t.chain # <<>> /\ (sc.chain # <<>> => Head(t.chain) = Head(sc.chain))
      /\ \A j \in DOMAIN sc.chain : j \in DOMAIN t.chain /\ t.chain[j] = sc.chain[j]
      /\ \A j \in DOMAIN t.chain :
            (j \in DOMAIN sc.chain /\ t.chain[j] = sc.chain[j]) \/ j = Len(sc.chain) + 1
      /\ t.chain[Len(sc.chain) + 1] = op
      /\ \A j \in DOMAIN t.chain : j <= Len(sc.chain) + 1 /\ j \in Nat
      /\ Len(sc.chain) \in Nat
  <2>1. \A j \in DOMAIN t.chain : j \in Nat
    BY <1>3, <1>4, <1>6, AppendFacts, LenProperties
  <2> QED
    BY <1>3, <1>4, <1>6, <2>1, AppendFacts
<1> HIDE DEF sc, t
<1>9. /\ sessions' \in Seq(SessionRecord) /\ Len(sessions') = Len(sessions)
      /\ DOMAIN sessions' = DOMAIN sessions
      /\ \A s \in DOMAIN sessions : /\ sessions'[s].scope = sessions[s].scope
                                    /\ sessions'[s].cancelled = sessions[s].cancelled
  <2>1. CASE UNCHANGED sessions
    BY <1>4, <2>1
  <2>2. CASE ~UNCHANGED sessions
    <3>1. PICK held \in SUBSET Control :
            sessions' = [sessions EXCEPT ![session] = [sessions[session] EXCEPT !.held = held]]
      <4>1. i \in Control /\ sessions[session].held \in SUBSET Control
        BY <1>2, <2>2 DEF Send, SessionRecord
      <4>2. \/ sessions' = [sessions EXCEPT ![session].held = @ \cup {i}]
            \/ sessions' = [sessions EXCEPT ![session].held = @ \ {i}]
        BY <2>2 DEF Send
      <4> QED
        BY <4>1, <4>2
    <3> DEFINE h == [sessions[session] EXCEPT !.held = held]
    <3>2. /\ h \in SessionRecord /\ h.scope = sessions[session].scope
          /\ h.cancelled = sessions[session].cancelled
      BY <1>2 DEF SessionRecord
    <3>3. sessions' = [sessions EXCEPT ![session] = h]
      BY <3>1
    <3> HIDE DEF h
    <3> QED
      BY <1>2, <1>4, <3>2, <3>3, ReplaceFacts
  <2> QED
    BY <2>1, <2>2
<1>10. Moves(current, t)
  <2>1. raising' \in Failure /\ raising'.by <= Len(sessions) /\ told' \in BOOLEAN
    BY <1>1 DEF RemoteInv, Typed
  <2>2. told => told'
    BY <1>1
  <2> QED
    BY <1>1, <1>4, <1>6, <1>7, <1>9, <2>1, <2>2 DEF Moves, sc
<1>11. HeadOf(t) = IF sc.chain = <<>> THEN op ELSE HeadOf(sc)
  <2>1. sc.chain = <<>> => Head(t.chain) = op
    BY <1>3, <1>4, <1>6, AppendFacts DEF sc
  <2> QED
    BY <1>8, <2>1 DEF HeadOf
<1>12. HostGone' = HostGone
  BY <1>1, <1>2, <1>9 DEF HostGone
<1>13. Fits(current) /\ HostFits(current) /\ LossFits(current)
  BY <1>2, InvFits, InvHostFits
<1>14. ASSUME NEW c \in DOMAIN scopes, c = current
       PROVE  Fits(c)' /\ HostFits(c)' /\ LossFits(c)'
  <2>1. /\ Fits(c) /\ HostFits(c) /\ LossFits(c) /\ scopes[c] = sc /\ scopes'[c] = t
        /\ wire'[c] = wire[c] /\ current' = c /\ session' = session /\ ready' /\ ready
    BY <1>1, <1>13, <1>14 DEF sc, t
  <2>2. /\ sc.chain = <<>> => sc.run = "idle"
        /\ \A j \in DOMAIN t.chain : t.chain[j].by # 0 =>
              t.chain[j].by \in DOMAIN sessions' /\ sessions'[t.chain[j].by].scope = c
    <3>1. /\ sc.chain = <<>> => sc.run = "idle"
          /\ \A j \in DOMAIN sc.chain : sc.chain[j].by # 0 =>
                sc.chain[j].by \in DOMAIN sessions /\ sessions[sc.chain[j].by].scope = c
      BY <2>1 DEF Fits
    <3>2. ASSUME NEW j \in DOMAIN t.chain, t.chain[j].by # 0
          PROVE  t.chain[j].by \in DOMAIN sessions /\ sessions[t.chain[j].by].scope = c
      BY <1>2, <1>3, <1>8, <1>14, <3>1, <3>2
    <3> QED
      BY <1>9, <3>1, <3>2
  <2>3. sc.cut => HeadOf(sc) = Cleanup /\ sc.chain # <<>>
    <3>1. sc.cut => HeadOf(sc) = Cleanup
      BY <2>1 DEF Fits
    <3> QED
      BY <1>4, <3>1, HeadOfFacts DEF sc
  <2>4. Fits(c)'
    <3>1. /\ sc.run = "idle" => sc.aim = NoControl
          /\ sc.run = "queued" /\ HeadOf(sc).kind = "push" =>
                sc.aim = HeadOf(sc).control /\ sc.aim \in sc.sent
          /\ sc.run \in {"queued", "written"} /\ HeadOf(sc).kind \in {"release", "cleanup"} =>
                sc.aim \in Control
          /\ sc.run = "written" /\ HeadOf(sc).kind \in {"release", "cleanup"} =>
                wire[c].down[sc.aim] = 0
          /\ sc.run # "idle" /\ HeadOf(sc) = Cleanup =>
                sc.failed \/ sc.sent \subseteq sc.todo \cup {sc.aim}
          /\ sc.run = "queued" /\ HeadOf(sc) # Cleanup =>
                /\ session = HeadOf(sc).by /\ ~HostGone
                /\ \A x \in Control \ wire[c].lost : wire[c].down[x] \in {0, HeadOf(sc).by}
          /\ \A x \in Control : wire[c].down[x] # 0 => x \in sc.sent \cup wire[c].lost
      BY <2>1 DEF Fits
    <3>2. t.run # "idle" => HeadOf(t) = HeadOf(sc)
      BY <1>6, <1>11, <2>2
    <3>3. t.cut => HeadOf(t) = Cleanup
      BY <1>6, <1>11, <2>3
    <3> DEFINE o == HeadOf(t)
    <3>4. /\ t.chain = <<>> => t.run = "idle"
          /\ t.run = "idle" => t.aim = NoControl
          /\ t.cut => o = Cleanup
      BY <1>6, <1>8, <3>1, <3>3
    <3>5. /\ t.run = "queued" /\ o.kind = "push" => t.aim = o.control /\ t.aim \in t.sent
          /\ t.run \in {"queued", "written"} /\ o.kind \in {"release", "cleanup"} =>
                t.aim \in Control
      BY <1>6, <3>1, <3>2
    <3>6. /\ t.run = "written" /\ o.kind \in {"release", "cleanup"} =>
                wire'[c].down[t.aim] = 0
          /\ t.run # "idle" /\ o = Cleanup => t.failed \/ t.sent \subseteq t.todo \cup {t.aim}
      BY <1>6, <2>1, <3>1, <3>2
    <3>7. t.run = "queued" /\ o # Cleanup =>
              /\ session' = o.by /\ ~HostGone'
              /\ \A x \in Control \ wire'[c].lost : wire'[c].down[x] \in {0, o.by}
      BY <1>6, <1>12, <2>1, <3>1, <3>2
    <3>8. \A x \in Control : wire'[c].down[x] # 0 => x \in t.sent \cup wire'[c].lost
      BY <1>6, <2>1, <3>1
    <3>9. HeadOf(t) = o
      OBVIOUS
    <3> HIDE DEF o
    <3> QED
      BY <2>1, <2>2, <3>4, <3>5, <3>6, <3>7, <3>8, <3>9, FitsNext
  <2>5. HostFits(c)'
    <3>1. \A j, k \in DOMAIN t.chain : t.chain[j].by = session /\ k > j => t.chain[k] # Cleanup
      <4>1. \A j, k \in DOMAIN sc.chain :
                sc.chain[j].by = session /\ k > j => sc.chain[k] # Cleanup
        BY <1>1, <1>14, <2>1 DEF HostFits
      <4> QED
        BY <1>3, <1>8, <4>1
    <3>2. /\ sc.cut => sc.sent = {}
          /\ ~sc.unconfirmed =>
              \/ \E j \in DOMAIN sc.chain : sc.chain[j] = Cleanup
              \/ \A x \in Control \ wire[c].lost : wire[c].down[x] \in {0, session}
      BY <1>1, <1>14, <2>1 DEF HostFits
    <3>3. (\E j \in DOMAIN sc.chain : sc.chain[j] = Cleanup)
            => \E j \in DOMAIN t.chain : t.chain[j] = Cleanup
      BY <1>8
    <3> QED
      BY <1>6, <2>1, <3>1, <3>2, <3>3 DEF HostFits
  <2>6. LossFits(c)'
    BY <1>1, <1>6, <2>1 DEF LossFits
  <2> QED
    BY <2>4, <2>5, <2>6
<1> QED
  BY <1>2, <1>10, <1>14, MoveKeepsInv

\* What a connection may become while the sessions and the wire stay.
MayBe(c, t) ==
    LET op == HeadOf(t) IN
    /\ t.chain = <<>> => t.run = "idle"
    /\ t.run = "idle" => t.aim = NoControl
    /\ t.cut => op = Cleanup
    /\ \A j \in DOMAIN t.chain : t.chain[j].by # 0 =>
          t.chain[j].by \in DOMAIN sessions /\ sessions[t.chain[j].by].scope = c
    /\ t.run = "queued" /\ op.kind = "push" => t.aim = op.control /\ t.aim \in t.sent
    /\ t.run \in {"queued", "written"} /\ op.kind \in {"release", "cleanup"} => t.aim \in Control
    /\ t.run = "written" /\ op.kind \in {"release", "cleanup"} => wire[c].down[t.aim] = 0
    /\ t.run # "idle" /\ op = Cleanup => t.failed \/ t.sent \subseteq t.todo \cup {t.aim}
    /\ t.run = "queued" /\ op # Cleanup =>
          /\ session = op.by /\ ~HostGone
          /\ \A i \in Control \ wire[c].lost : wire[c].down[i] \in {0, op.by}
    /\ \A i \in Control : wire[c].down[i] # 0 => i \in t.sent \cup wire[c].lost
    /\ c = current =>
        /\ ~ready \/ t.cut => t.sent = {}
        /\ ~HostGone => \A j, k \in DOMAIN t.chain :
              t.chain[j].by = session /\ k > j => t.chain[k] # Cleanup
        /\ ~HostGone /\ ~t.unconfirmed =>
              \/ \E j \in DOMAIN t.chain : t.chain[j] = Cleanup
              \/ \A i \in Control \ wire[c].lost : wire[c].down[i] \in {0, session}

\* It is what it must be by itself.
LEMMA IsWhatItMayBe ==
    ASSUME RemoteInv, NEW c \in DOMAIN scopes PROVE MayBe(c, scopes[c])
<1>1. Fits(c) /\ HostFits(c)
  BY InvFits, InvHostFits
<1> QED
  BY <1>1 DEF Fits, HostFits, MayBe

\* A connection that becomes what it may keeps the invariant.
LEMMA QuietStep ==
    ASSUME RemoteInv, NEW c \in DOMAIN scopes, NEW t \in ScopeRecord,
           t.manager = scopes[c].manager, t.cancelled = scopes[c].cancelled,
           MayBe(c, t), scopes' = [scopes EXCEPT ![c] = t],
           raising' \in Failure, raising'.by <= Len(sessions),
           told' \in BOOLEAN, told => told',
           UNCHANGED <<live, retired, ready, current, sessions, session, awaited, disposed, wire>>
    PROVE  RemoteInv'
<1>1. Moves(c, t) /\ scopes'[c] = t /\ wire'[c] = wire[c] /\ Len(scopes') = Len(scopes)
  BY QuietMove
<1>2. HostGone' = HostGone
  BY DEF HostGone
<1>3. Fits(c)'
  BY <1>1, <1>2 DEF Fits, MayBe
<1>4. HostFits(c)'
  BY <1>1, <1>2 DEF HostFits, MayBe
<1>5. LossFits(c)'
  <2>1. LossFits(c)
    BY InvHostFits
  <2> QED
    BY <1>1, <2>1 DEF LossFits
<1> QED
  BY <1>1, <1>3, <1>4, <1>5, MoveKeepsInv

\* The first operation of a chain ends.
LEMMA ShiftMayBe ==
    ASSUME RemoteInv, NEW c \in DOMAIN scopes, NEW t \in ScopeRecord,
           scopes[c].chain # <<>>, t.chain = Tail(scopes[c].chain),
           t.run = "idle", t.aim = NoControl, ~t.cut,
           \A i \in Control : wire[c].down[i] # 0 => i \in t.sent \cup wire[c].lost,
           c = current /\ ~ready => t.sent = {},
           c = current /\ ~HostGone /\ ~t.unconfirmed =>
              \/ \E j \in DOMAIN t.chain : t.chain[j] = Cleanup
              \/ \A i \in Control \ wire[c].lost : wire[c].down[i] \in {0, session}
    PROVE  MayBe(c, t)
<1> DEFINE s == scopes[c].chain
<1>1. Fits(c) /\ HostFits(c) /\ s \in Seq(Ops)
  BY InvFits, InvHostFits DEF ScopeRecord
<1>2. \A j \in DOMAIN s : s[j].by # 0 => s[j].by \in DOMAIN sessions /\ sessions[s[j].by].scope = c
  BY <1>1 DEF Fits
<1>3. c = current /\ ~HostGone =>
        \A j, k \in DOMAIN s : s[j].by = session /\ k > j => s[k] # Cleanup
  BY <1>1 DEF HostFits
<1> HIDE DEF s
<1>4. /\ \A i \in DOMAIN t.chain : i + 1 \in DOMAIN s /\ t.chain[i] = s[i + 1]
      /\ \A i, j \in DOMAIN t.chain : i > j => i + 1 > j + 1
  <2>1. t.chain = Tail(s) /\ s # <<>>
    BY DEF s
  <2>2. /\ \A i \in DOMAIN Tail(s) : i + 1 \in DOMAIN s /\ Tail(s)[i] = s[i + 1]
        /\ \A i, j \in DOMAIN Tail(s) : i > j => i + 1 > j + 1
    BY <1>1, <2>1, TailFacts
  <2> QED
    BY <2>1, <2>2
<1>5. \A j \in DOMAIN t.chain : t.chain[j].by # 0 =>
          t.chain[j].by \in DOMAIN sessions /\ sessions[t.chain[j].by].scope = c
  BY <1>2, <1>4
<1>6. c = current /\ ~HostGone => \A j, k \in DOMAIN t.chain :
          t.chain[j].by = session /\ k > j => t.chain[k] # Cleanup
  <2>1. ASSUME c = current, ~HostGone, NEW j \in DOMAIN t.chain, NEW k \in DOMAIN t.chain,
               t.chain[j].by = session, k > j
        PROVE  t.chain[k] # Cleanup
    <3>1. /\ j + 1 \in DOMAIN s /\ s[j + 1].by = session
          /\ k + 1 \in DOMAIN s /\ t.chain[k] = s[k + 1] /\ k + 1 > j + 1
      BY <1>4, <2>1
    <3> QED
      BY <1>3, <2>1, <3>1
  <2> QED
    BY <2>1
<1> QED
  BY <1>5, <1>6 DEF MayBe

\* What becomes of a record in a shift.
LEMMA ShiftFacts ==
    ASSUME NEW sc \in ScopeRecord, sc.chain # <<>>
    PROVE  LET t == Shift(sc) IN
           /\ t \in ScopeRecord /\ t.chain = Tail(sc.chain)
           /\ t.run = "idle" /\ t.aim = NoControl /\ ~t.cut /\ t.sent = sc.sent
           /\ t.unconfirmed = sc.unconfirmed /\ t.manager = sc.manager
           /\ t.cancelled = sc.cancelled
<1>1. Tail(sc.chain) \in Seq(Ops)
  BY TailFacts DEF ScopeRecord
<1> QED
  BY <1>1 DEF Shift, ScopeRecord

\* A confirmed write ends what is owed, if it was written.
LEMMA ConfirmedFacts ==
    ASSUME NEW sc \in ScopeRecord
    PROVE  LET t == Confirmed(sc) IN
           /\ t \in ScopeRecord /\ t.chain = sc.chain /\ t.run = sc.run /\ t.aim = sc.aim
           /\ t.cut = sc.cut /\ t.todo = sc.todo /\ t.failed = sc.failed
           /\ t.unconfirmed = sc.unconfirmed /\ t.manager = sc.manager
           /\ t.cancelled = sc.cancelled
           /\ t.sent = IF sc.run = "written" THEN sc.sent \ {sc.aim} ELSE sc.sent
<1>1. CASE sc.run = "written"
  BY <1>1 DEF Confirmed, ScopeRecord
<1>2. CASE sc.run # "written"
  BY <1>2 DEF Confirmed, ScopeRecord
<1> QED
  BY <1>1, <1>2

\* _releasePushes goes on to the next push, or ends.
LEMMA NextReleaseStep ==
    ASSUME RemoteInv, NEW c \in DOMAIN scopes, NEW r \in ScopeRecord,
           r.manager = scopes[c].manager, r.cancelled = scopes[c].cancelled,
           r.chain = scopes[c].chain, r.chain # <<>>, Head(r.chain) = Cleanup,
           r.failed \/ r.sent \subseteq r.todo,
           \A i \in Control : wire[c].down[i] # 0 => i \in r.sent \cup wire[c].lost,
           c = current /\ (~ready \/ r.cut) => r.sent = {},
           NextRelease(c, r), raising' \in Failure, raising'.by <= Len(sessions),
           UNCHANGED <<live, retired, ready, current, sessions, session, awaited, disposed, wire>>
    PROVE  RemoteInv'
<1>1. told \in BOOLEAN /\ r.failed \in BOOLEAN /\ r.unconfirmed \in BOOLEAN
  BY DEF RemoteInv, Typed, ScopeRecord
<1>2. CASE r.todo = {} \/ ~IsCurrent(c) \/ r.cut
  <2> DEFINE t == [Shift(r) EXCEPT !.unconfirmed = r.failed \/ (r.unconfirmed /\ r.sent # {})]
  <2>1. EndCleanup(c, r)
    BY <1>2 DEF NextRelease
  <2>2. /\ Shift(r) \in ScopeRecord /\ Shift(r).chain = Tail(r.chain)
        /\ Shift(r).run = "idle" /\ Shift(r).aim = NoControl /\ ~Shift(r).cut
        /\ Shift(r).sent = r.sent /\ Shift(r).unconfirmed = r.unconfirmed
        /\ Shift(r).manager = r.manager /\ Shift(r).cancelled = r.cancelled
    BY ShiftFacts
  <2>3. scopes' = [scopes EXCEPT ![c] = t] /\ told' = (told \/ (r.failed /\ IsCurrent(c)))
    BY <2>1, <2>2 DEF EndCleanup, ScopeRecord
  <2>4. /\ t \in ScopeRecord /\ t.chain = Tail(r.chain) /\ t.run = "idle" /\ t.aim = NoControl
        /\ ~t.cut /\ t.sent = r.sent /\ t.manager = r.manager /\ t.cancelled = r.cancelled
        /\ t.unconfirmed = (r.failed \/ (r.unconfirmed /\ r.sent # {}))
    BY <1>1, <2>2 DEF ScopeRecord
  <2> HIDE DEF t
  <2>5. ASSUME c = current, ~HostGone, ~t.unconfirmed
        PROVE  \A i \in Control \ wire[c].lost : wire[c].down[i] \in {0, session}
    <3>1. IsCurrent(c)
      BY <2>5 DEF RemoteInv, ReadyIsConnected, IsCurrent
    <3>2. r.sent = {}
      BY <1>2, <2>4, <2>5, <3>1
    <3> QED
      BY <3>2
  <2>6. MayBe(c, t)
    BY <2>4, <2>5, ShiftMayBe
  <2>7. told' \in BOOLEAN /\ (told => told')
    BY <1>1, <2>3
  <2> QED
    BY <2>3, <2>4, <2>6, <2>7, QuietStep
<1>3. CASE r.todo # {} /\ IsCurrent(c) /\ ~r.cut
  <2>1. ReleaseOne(c, r)
    BY <1>3 DEF NextRelease
  <2>2. PICK i \in r.todo :
          scopes' = [scopes EXCEPT ![c] = [r EXCEPT !.run = "queued", !.aim = i, !.todo = @ \ {i}]]
    BY <2>1 DEF ReleaseOne
  <2> DEFINE t == [r EXCEPT !.run = "queued", !.aim = i, !.todo = r.todo \ {i}]
  <2>3. scopes' = [scopes EXCEPT ![c] = t] /\ told' = told
    BY <2>1, <2>2 DEF ReleaseOne
  <2>4. /\ t \in ScopeRecord /\ t.chain = r.chain /\ t.run = "queued" /\ t.aim = i
        /\ i \in Control /\ t.todo = r.todo \ {i} /\ t.cut = r.cut /\ t.sent = r.sent
        /\ t.manager = r.manager /\ t.cancelled = r.cancelled /\ t.failed = r.failed
        /\ t.unconfirmed = r.unconfirmed
    BY DEF ScopeRecord
  <2> HIDE DEF t
  <2>5. /\ HeadOf(t) = Cleanup /\ t.chain # <<>> /\ 1 \in DOMAIN t.chain
        /\ t.chain[1] = Cleanup
    BY <2>4, HeadOfFacts
  <2>6. Cleanup.kind = "cleanup" /\ ready
    BY <1>3 DEF Cleanup, Op, IsCurrent
  <2>7. MayBe(c, t)
    <3>1. MayBe(c, scopes[c])
      BY IsWhatItMayBe
    <3>2. /\ \A j \in DOMAIN t.chain : t.chain[j].by # 0 =>
              t.chain[j].by \in DOMAIN sessions /\ sessions[t.chain[j].by].scope = c
          /\ c = current /\ ~HostGone => \A j, k \in DOMAIN t.chain :
              t.chain[j].by = session /\ k > j => t.chain[k] # Cleanup
      BY <2>4, <3>1 DEF MayBe
    <3>3. t.failed \/ t.sent \subseteq t.todo \cup {t.aim}
      BY <2>4
    <3> QED
      BY <1>3, <2>4, <2>5, <2>6, <3>2, <3>3 DEF MayBe
  <2> QED
    BY <1>1, <2>3, <2>4, <2>7, QuietStep
<1> QED
  BY <1>2, <1>3

\* An operation that has started goes on, with the same chain.
LEMMA GoesOn ==
    ASSUME RemoteInv, NEW c \in DOMAIN scopes, NEW t \in ScopeRecord,
           scopes[c].chain # <<>>, t.chain = scopes[c].chain, t.cut = scopes[c].cut,
           t.unconfirmed = scopes[c].unconfirmed, t.failed = scopes[c].failed,
           t.todo = scopes[c].todo, t.run = "failed", t.aim = scopes[c].aim,
           t.sent = scopes[c].sent,
           scopes[c].run = "idle" => HeadOf(scopes[c]) # Cleanup
    PROVE  MayBe(c, t)
<1>1. MayBe(c, scopes[c])
  BY IsWhatItMayBe
<1>2. HeadOf(t) = HeadOf(scopes[c])
  BY DEF HeadOf
<1> DEFINE op == HeadOf(t)
           sc == scopes[c]
<1>3. HeadOf(t) = op /\ HeadOf(sc) = op
  BY <1>2
<1>4. op = Cleanup => t.failed \/ t.sent \subseteq t.todo \cup {t.aim}
  BY <1>1, <1>2 DEF MayBe
<1> HIDE DEF op
<1>5. /\ t.chain # <<>> /\ t.run = "failed" /\ (t.cut => op = Cleanup)
      /\ \A j \in DOMAIN t.chain : t.chain[j].by # 0 =>
          t.chain[j].by \in DOMAIN sessions /\ sessions[t.chain[j].by].scope = c
      /\ \A i \in Control : wire[c].down[i] # 0 => i \in t.sent \cup wire[c].lost
  BY <1>1, <1>3 DEF MayBe
<1>6. c = current =>
        /\ ~ready \/ t.cut => t.sent = {}
        /\ ~HostGone => \A j, k \in DOMAIN t.chain :
              t.chain[j].by = session /\ k > j => t.chain[k] # Cleanup
        /\ ~HostGone /\ ~t.unconfirmed =>
              \/ \E j \in DOMAIN t.chain : t.chain[j] = Cleanup
              \/ \A i \in Control \ wire[c].lost : wire[c].down[i] \in {0, session}
  BY <1>1, <1>3 DEF MayBe
<1> QED
  BY <1>3, <1>4, <1>5, <1>6 DEF MayBe

\* The input that starts is one of the live host, and no cleanup is to come.
LEMMA InputAccepted ==
    ASSUME RemoteInv, NEW c \in DOMAIN scopes, scopes[c].chain # <<>>,
           Head(scopes[c].chain) # Cleanup, Accepted(Head(scopes[c].chain).by)
    PROVE  /\ c = current /\ session = Head(scopes[c].chain).by /\ ~HostGone /\ ready
           /\ \A i \in Control \ wire[c].lost : wire[c].down[i] \in {0, session}
           /\ ~scopes[c].cut
<1> DEFINE s == scopes[c].chain
<1>1. /\ s \in Seq(Ops)
      /\ scopes[c].cut => HeadOf(scopes[c]) = Cleanup
      /\ HeadOf(scopes[c]) = Head(s)
      /\ \A j \in DOMAIN s : s[j].by # 0 =>
            s[j].by \in DOMAIN sessions /\ sessions[s[j].by].scope = c
  BY InvFits DEF Fits, ScopeRecord
<1>2. Head(s) = s[1] /\ 1 \in DOMAIN s /\ s[1] \in Ops /\ DOMAIN s = 1..Len(s) /\ Len(s) \in Nat
  BY <1>1, TailFacts, LenProperties
<1>3. s[1].by # 0
  BY <1>2, OpFacts
<1>4. session = s[1].by /\ ~HostGone /\ ready /\ ~scopes[current].unconfirmed
  BY <1>2 DEF Accepted
<1>5. c = current
  BY <1>1, <1>2, <1>3, <1>4 DEF RemoteInv, ReadyIsConnected
<1>6. HostFits(c)
  BY InvHostFits
<1>7. \A k \in DOMAIN s : s[k] # Cleanup
  <2>1. \A k \in DOMAIN s : k > 1 => s[k] # Cleanup
    BY <1>2, <1>4, <1>5, <1>6 DEF HostFits
  <2>2. \A k \in DOMAIN s : k > 1 \/ k = 1
    BY <1>2
  <2> QED
    BY <1>2, <2>1, <2>2
<1>8. \A i \in Control \ wire[c].lost : wire[c].down[i] \in {0, session}
  BY <1>4, <1>5, <1>6, <1>7 DEF HostFits
<1> QED
  BY <1>1, <1>2, <1>4, <1>5, <1>8

\* The first operation of a chain starts.
LEMMA StartStep == ASSUME RemoteInv, NEW c \in DOMAIN scopes, Start(c) PROVE RemoteInv'
<1> DEFINE sc == scopes[c]
           op == Head(sc.chain)
<1>1. /\ sc.chain # <<>> /\ sc.run = "idle"
      /\ raising' = [raising EXCEPT !.next = FALSE]
      /\ UNCHANGED <<live, retired, ready, current, sessions, session, awaited, disposed, wire>>
  BY DEF Start
<1>2. /\ sc \in ScopeRecord /\ HeadOf(sc) = op /\ op \in Ops /\ MayBe(c, sc)
      /\ sc.aim = NoControl
  BY <1>1, InvFits, IsWhatItMayBe DEF Fits
<1>3. raising' \in Failure /\ raising'.by <= Len(sessions)
  <2>1. raising \in Failure /\ raising.by <= Len(sessions)
    BY DEF RemoteInv, Typed
  <2> QED
    BY <1>1, <2>1 DEF Failure
<1>4. told \in BOOLEAN
  BY DEF RemoteInv, Typed
<1>5. CASE op = Cleanup
  <2> DEFINE r == [sc EXCEPT !.todo = sc.sent, !.cut = sc.cancelled]
  <2>1. NextRelease(c, r)
    BY <1>5 DEF Start
  <2>2. /\ r \in ScopeRecord /\ r.manager = sc.manager /\ r.cancelled = sc.cancelled
        /\ r.chain = sc.chain /\ r.sent = sc.sent /\ r.todo = sc.sent /\ r.cut = sc.cancelled
    BY <1>2 DEF ScopeRecord
  <2> HIDE DEF r
  <2>3. \A i \in Control : wire[c].down[i] # 0 => i \in r.sent \cup wire[c].lost
    BY <1>2, <2>2 DEF MayBe
  <2>4. c = current /\ (~ready \/ r.cut) => r.sent = {}
    <3>1. c = current => current # 0
      BY LenProperties DEF RemoteInv, Typed
    <3>2. c = current /\ ready => ~sc.cancelled
      BY DEF RemoteInv, ReadyIsConnected
    <3>3. c = current /\ ~ready => sc.sent = {}
      BY <1>2 DEF MayBe
    <3> QED
      BY <2>2, <3>2, <3>3
  <2> QED
    BY <1>1, <1>3, <1>5, <2>1, <2>2, <2>3, <2>4, NextReleaseStep
<1>6. CASE op # Cleanup /\ ~Accepted(op.by)
  <2> DEFINE t == [sc EXCEPT !.run = "failed"]
  <2>1. scopes' = [scopes EXCEPT ![c] = t] /\ told' = told
    BY <1>6 DEF Start, StartInput
  <2>2. /\ t \in ScopeRecord /\ t.manager = sc.manager /\ t.cancelled = sc.cancelled
        /\ t.chain = sc.chain /\ t.sent = sc.sent /\ t.todo = sc.todo /\ t.cut = sc.cut
        /\ t.failed = sc.failed /\ t.aim = sc.aim /\ t.run = "failed"
        /\ t.unconfirmed = sc.unconfirmed
    BY <1>2 DEF ScopeRecord
  <2> HIDE DEF t
  <2>3. MayBe(c, t)
    BY <1>1, <1>2, <1>6, <2>2, GoesOn
  <2> QED
    BY <1>1, <1>3, <1>4, <2>1, <2>2, <2>3, QuietStep
<1>7. CASE op # Cleanup /\ Accepted(op.by)
  <2> DEFINE sent == IF op.kind = "push" THEN sc.sent \cup {op.control} ELSE sc.sent
             t == [sc EXCEPT !.run = "queued", !.aim = op.control, !.sent = sent]
  <2>1. scopes' = [scopes EXCEPT ![c] = t] /\ told' = told
    BY <1>7 DEF Start, StartInput
  <2>2. /\ op.kind \in {"push", "release", "turn"} /\ op.control \in Control \cup {NoControl}
        /\ op.kind \in {"push", "release"} => op.control \in Control
    BY <1>2, <1>7, OpFacts
  <2>3. sent \in SUBSET Control /\ sc.sent \subseteq sent
        /\ (op.kind = "push" => op.control \in sent)
    BY <1>2, <2>2 DEF ScopeRecord
  <2> HIDE DEF sent
  <2>4. /\ t \in ScopeRecord /\ t.manager = sc.manager /\ t.cancelled = sc.cancelled
        /\ t.chain = sc.chain /\ t.sent = sent /\ t.todo = sc.todo /\ t.cut = sc.cut
        /\ t.failed = sc.failed /\ t.aim = op.control /\ t.run = "queued"
        /\ t.unconfirmed = sc.unconfirmed
    BY <1>2, <2>2, <2>3 DEF ScopeRecord
  <2> HIDE DEF t
  <2>5. /\ c = current /\ session = op.by /\ ~HostGone /\ ready
        /\ \A i \in Control \ wire[c].lost : wire[c].down[i] \in {0, session}
        /\ ~sc.cut
    BY <1>1, <1>7, InputAccepted
  <2>6. HeadOf(t) = op
    BY <1>1, <2>4 DEF HeadOf
  <2>7. /\ t.chain # <<>> /\ t.run = "queued" /\ ~t.cut
        /\ \A j \in DOMAIN t.chain : t.chain[j].by # 0 =>
            t.chain[j].by \in DOMAIN sessions /\ sessions[t.chain[j].by].scope = c
        /\ \A i \in Control : wire[c].down[i] # 0 => i \in t.sent \cup wire[c].lost
        /\ \A j, k \in DOMAIN t.chain :
              t.chain[j].by = session /\ k > j => t.chain[k] # Cleanup
    BY <1>1, <1>2, <2>3, <2>4, <2>5 DEF MayBe
  <2>8. /\ op.kind = "push" => t.aim = op.control /\ t.aim \in t.sent
        /\ op.kind \in {"release", "cleanup"} => t.aim \in Control
    BY <2>2, <2>3, <2>4
  <2> HIDE DEF op
  <2>9. MayBe(c, t)
    BY <1>7, <2>5, <2>6, <2>7, <2>8 DEF MayBe
  <2> QED
    BY <1>1, <1>3, <1>4, <2>1, <2>4, <2>9, QuietStep
<1> QED
  BY <1>5, <1>6, <1>7

\* The writer throws.
LEMMA FailStep == ASSUME RemoteInv, NEW c \in DOMAIN scopes, Fail(c) PROVE RemoteInv'
<1> DEFINE sc == scopes[c]
           t == [sc EXCEPT !.run = "failed"]
<1>1. /\ sc.run = "queued" /\ scopes' = [scopes EXCEPT ![c] = t]
      /\ UNCHANGED <<live, retired, ready, current, sessions, session, told, raising, awaited,
                     disposed, wire>>
  BY DEF Fail, delegate
<1>2. sc \in ScopeRecord /\ sc.chain # <<>>
  BY <1>1, InvFits
<1>3. /\ t \in ScopeRecord /\ t.manager = sc.manager /\ t.cancelled = sc.cancelled
      /\ t.chain = sc.chain /\ t.sent = sc.sent /\ t.todo = sc.todo /\ t.cut = sc.cut
      /\ t.failed = sc.failed /\ t.aim = sc.aim /\ t.run = "failed"
      /\ t.unconfirmed = sc.unconfirmed
  BY <1>2 DEF ScopeRecord
<1> HIDE DEF t
<1>4. MayBe(c, t)
  BY <1>1, <1>2, <1>3, GoesOn
<1>5. raising' \in Failure /\ raising'.by <= Len(sessions) /\ told' \in BOOLEAN
  BY <1>1 DEF RemoteInv, Typed
<1> QED
  BY <1>1, <1>3, <1>4, <1>5, QuietStep

\* send goes on after its write.
LEMMA InputReturnsStep ==
    ASSUME RemoteInv, NEW c \in DOMAIN scopes, InputReturns(c) PROVE RemoteInv'
<1> DEFINE sc == scopes[c]
           op == Head(sc.chain)
           sure == op.kind = "release" /\ IsCurrent(c)
           r == IF sure THEN Confirmed(sc) ELSE sc
           t == Shift(r)
<1>1. /\ sc.run \in {"written", "failed", "cancelled"} /\ op # Cleanup
      /\ scopes' = [scopes EXCEPT ![c] = t]
      /\ raising' = IF sc.run = "written" THEN NoFailure
                    ELSE [by |-> op.by, scope |-> c, cancelled |-> sc.run = "cancelled",
                          next |-> Len(sc.chain) > 1]
      /\ UNCHANGED <<live, retired, ready, current, sessions, session, told, awaited, disposed,
                     wire>>
  BY DEF InputReturns, Returned, delegate
<1>2. /\ sc \in ScopeRecord /\ sc.chain # <<>> /\ HeadOf(sc) = op /\ op \in Ops
      /\ MayBe(c, sc) /\ sc.chain \in Seq(Ops)
  BY <1>1, InvFits, IsWhatItMayBe DEF ScopeRecord
<1>3. /\ r \in ScopeRecord /\ r.chain = sc.chain /\ r.manager = sc.manager
      /\ r.cancelled = sc.cancelled /\ r.unconfirmed = sc.unconfirmed
      /\ r.sent \subseteq sc.sent
      /\ r.sent = sc.sent \/ (sc.run = "written" /\ sure /\ r.sent = sc.sent \ {sc.aim})
  <2>1. CASE sure
    <3> DEFINE q == Confirmed(sc)
    <3>1. /\ q \in ScopeRecord /\ q.chain = sc.chain /\ q.manager = sc.manager
          /\ q.cancelled = sc.cancelled /\ q.unconfirmed = sc.unconfirmed
          /\ q.sent = IF sc.run = "written" THEN sc.sent \ {sc.aim} ELSE sc.sent
      BY <1>2, ConfirmedFacts
    <3>2. r = q
      BY <2>1
    <3> HIDE DEF q, sure
    <3> QED
      BY <2>1, <3>1, <3>2
  <2>2. CASE ~sure
    BY <1>2, <2>2
  <2> QED
    BY <2>1, <2>2
<1>4. /\ t \in ScopeRecord /\ t.chain = Tail(sc.chain)
      /\ t.run = "idle" /\ t.aim = NoControl /\ ~t.cut /\ t.sent = r.sent
      /\ t.unconfirmed = sc.unconfirmed /\ t.manager = sc.manager
      /\ t.cancelled = sc.cancelled
  <2> HIDE DEF r
  <2> QED
    BY <1>2, <1>3, ShiftFacts
<1>5. sure => op.kind = "release"
  OBVIOUS
<1>6. /\ sc.run = "written" /\ op.kind = "release" => wire[c].down[sc.aim] = 0
      /\ \A i \in Control : wire[c].down[i] # 0 => i \in sc.sent \cup wire[c].lost
      /\ c = current /\ ~ready => sc.sent = {}
      /\ c = current /\ ~HostGone /\ ~sc.unconfirmed =>
              \/ \E j \in DOMAIN sc.chain : sc.chain[j] = Cleanup
              \/ \A i \in Control \ wire[c].lost : wire[c].down[i] \in {0, session}
  BY <1>2 DEF MayBe
<1> HIDE DEF t, r, sure
<1>7. \A i \in Control : wire[c].down[i] # 0 => i \in t.sent \cup wire[c].lost
  BY <1>3, <1>4, <1>5, <1>6
<1>8. c = current /\ ~HostGone /\ ~t.unconfirmed =>
        \/ \E j \in DOMAIN t.chain : t.chain[j] = Cleanup
        \/ \A i \in Control \ wire[c].lost : wire[c].down[i] \in {0, session}
  <2>1. ASSUME NEW j \in DOMAIN sc.chain, sc.chain[j] = Cleanup
        PROVE  \E k \in DOMAIN t.chain : t.chain[k] = Cleanup
    <3>1. /\ op = sc.chain[1] /\ j # 1
          /\ j - 1 \in DOMAIN Tail(sc.chain) /\ Tail(sc.chain)[j - 1] = sc.chain[j]
      BY <1>1, <1>2, <2>1, TailFacts
    <3> QED
      BY <1>4, <2>1, <3>1
  <2> QED
    BY <1>4, <1>6, <2>1
<1>9. MayBe(c, t)
  BY <1>2, <1>3, <1>4, <1>6, <1>7, <1>8, ShiftMayBe
<1>10. raising' \in Failure /\ raising'.by <= Len(sessions)
  <2>1. op.by \in 0..MaxSessions /\ op.by <= Len(sessions)
    <3>1. 1 \in DOMAIN sc.chain /\ sc.chain[1] = op
      BY <1>2, TailFacts
    <3>2. op.by # 0 => op.by \in DOMAIN sessions
      BY <1>2, <3>1 DEF MayBe
    <3>3. Len(sessions) \in Nat /\ DOMAIN sessions = 1..Len(sessions)
      BY LenProperties DEF RemoteInv, Typed
    <3> QED
      BY <1>2, <3>2, <3>3, OpFacts
  <2>2. c \in 0..MaxScopes
    BY LenProperties DEF RemoteInv, Typed
  <2>3. Len(sessions) \in Nat
    BY LenProperties DEF RemoteInv, Typed
  <2> HIDE DEF op
  <2>4. NoFailure \in Failure /\ NoFailure.by = 0
    BY DEF NoFailure, Failure
  <2> QED
    BY <1>1, <2>1, <2>2, <2>3, <2>4 DEF Failure
<1>11. told \in BOOLEAN
  BY DEF RemoteInv, Typed
<1> QED
  BY <1>1, <1>4, <1>9, <1>10, <1>11, QuietStep

\* _releasePushes goes on after a release.
LEMMA ReleaseReturnsStep ==
    ASSUME RemoteInv, NEW c \in DOMAIN scopes, ReleaseReturns(c) PROVE RemoteInv'
<1> DEFINE sc == scopes[c]
           q == Confirmed(sc)
           r == [q EXCEPT !.failed = q.failed \/ sc.run # "written"]
<1>1. /\ sc.run \in {"written", "failed", "cancelled"} /\ Head(sc.chain) = Cleanup
      /\ NextRelease(c, r)
      /\ UNCHANGED <<live, retired, ready, current, sessions, session, raising, awaited, disposed,
                     wire>>
  BY DEF ReleaseReturns, Returned
<1>2. /\ sc \in ScopeRecord /\ sc.chain # <<>> /\ HeadOf(sc) = Cleanup /\ MayBe(c, sc)
  BY <1>1, InvFits, IsWhatItMayBe
<1>3. /\ q \in ScopeRecord /\ q.chain = sc.chain /\ q.manager = sc.manager
      /\ q.cancelled = sc.cancelled /\ q.cut = sc.cut /\ q.todo = sc.todo
      /\ q.failed = sc.failed
      /\ q.sent = IF sc.run = "written" THEN sc.sent \ {sc.aim} ELSE sc.sent
  BY <1>2, ConfirmedFacts
<1> HIDE DEF q
<1>4. /\ r \in ScopeRecord /\ r.chain = sc.chain /\ r.manager = sc.manager
      /\ r.cancelled = sc.cancelled /\ r.cut = sc.cut /\ r.todo = sc.todo /\ r.sent = q.sent
      /\ r.failed = (sc.failed \/ sc.run # "written")
  BY <1>3 DEF ScopeRecord
<1> HIDE DEF r
<1>5. /\ sc.failed \/ sc.sent \subseteq sc.todo \cup {sc.aim}
      /\ sc.run = "written" => wire[c].down[sc.aim] = 0
      /\ \A i \in Control : wire[c].down[i] # 0 => i \in sc.sent \cup wire[c].lost
      /\ c = current /\ (~ready \/ sc.cut) => sc.sent = {}
  <2>1. Cleanup.kind = "cleanup"
    BY DEF Cleanup, Op
  <2> QED
    BY <1>1, <1>2, <2>1 DEF MayBe
<1>6. r.failed \/ r.sent \subseteq r.todo
  BY <1>3, <1>4, <1>5
<1>7. \A i \in Control : wire[c].down[i] # 0 => i \in r.sent \cup wire[c].lost
  BY <1>3, <1>4, <1>5
<1>8. c = current /\ (~ready \/ r.cut) => r.sent = {}
  BY <1>3, <1>4, <1>5
<1>9. raising' \in Failure /\ raising'.by <= Len(sessions)
  BY <1>1 DEF RemoteInv, Typed
<1> QED
  BY <1>1, <1>2, <1>4, <1>6, <1>7, <1>8, <1>9, NextReleaseStep

\* What is written changes one control.
Written(W, c, a, b) == [W EXCEPT ![c].down[a] = b, ![c].lost = @ \ {a}]

\* It is one record of the wire that changes.
LEMMA WireWritten ==
    ASSUME NEW W \in Seq(WireRecord), NEW c \in DOMAIN W, NEW a, NEW b
    PROVE  Written(W, c, a, b)
             = [W EXCEPT ![c] = [down |-> [W[c].down EXCEPT ![a] = b], lost |-> W[c].lost \ {a}]]
<1> DEFINE d == [W[c].down EXCEPT ![a] = b]
           l == W[c].lost \ {a}
           y == [W[c] EXCEPT !.down = d]
           x == [W EXCEPT ![c] = y]
<1>1. W[c] = [down |-> W[c].down, lost |-> W[c].lost]
  <2>1. W[c] \in WireRecord
    BY ElementOfSeq, LenProperties
  <2> QED
    BY <2>1 DEF WireRecord
<1>2. Written(W, c, a, b) = [x EXCEPT ![c].lost = @ \ {a}]
  BY DEF Written
<1>3. x[c] = y
  OBVIOUS
<1> HIDE DEF d
<1>4. y = [down |-> d, lost |-> W[c].lost]
  BY <1>1
<1> HIDE DEF x, y
<1>5. y.lost = W[c].lost
  BY <1>4
<1>6. Written(W, c, a, b) = [x EXCEPT ![c] = [y EXCEPT !.lost = l]]
  <2>1. [x EXCEPT ![c].lost = @ \ {a}] = [x EXCEPT ![c] = [x[c] EXCEPT !.lost = x[c].lost \ {a}]]
    OBVIOUS
  <2>2. x[c].lost \ {a} = l
    BY <1>3, <1>5
  <2> HIDE DEF l
  <2> QED
    BY <1>2, <1>3, <2>1, <2>2
<1> HIDE DEF l
<1>7. [y EXCEPT !.lost = l] = [down |-> d, lost |-> l]
  BY <1>4
<1> DEFINE z == [down |-> d, lost |-> l]
<1> HIDE DEF z
<1>8. Written(W, c, a, b) = [x EXCEPT ![c] = z]
  BY <1>6, <1>7 DEF z
<1>9. [x EXCEPT ![c] = z] = [W EXCEPT ![c] = z]
  BY DEF x
<1> QED
  BY <1>8, <1>9 DEF z, d, l

\* The scheduler writes the message of the first operation.
LEMMA DeliverStep ==
    ASSUME RemoteInv, NEW c \in DOMAIN scopes, NEW outcome \in {"written", "failed"},
           Deliver(c, outcome)
    PROVE  RemoteInv'
<1> DEFINE sc == scopes[c]
           op == Head(sc.chain)
           t == [sc EXCEPT !.run = outcome]
           by == IF op.kind = "push" THEN op.by ELSE 0
           w == IF op.kind = "turn" THEN wire[c]
                ELSE [down |-> [wire[c].down EXCEPT ![sc.aim] = by],
                      lost |-> wire[c].lost \ {sc.aim}]
<1>1. /\ sc.run = "queued" /\ scopes' = [scopes EXCEPT ![c].run = outcome]
      /\ wire' = IF op.kind = "turn" THEN wire
                 ELSE [wire EXCEPT ![c].down[sc.aim] = by, ![c].lost = @ \ {sc.aim}]
      /\ UNCHANGED <<live, retired, ready, current, sessions, session, told, raising, awaited,
                     disposed>>
  BY DEF Deliver, delegate
<1>2. /\ sc \in ScopeRecord /\ scopes \in Seq(ScopeRecord) /\ sc.chain # <<>>
      /\ HeadOf(sc) = op /\ op \in Ops /\ MayBe(c, sc)
      /\ wire[c] \in WireRecord /\ wire \in Seq(WireRecord) /\ c \in DOMAIN wire
  BY <1>1, InvFits, IsWhatItMayBe
<1>3. /\ op.kind \in {"push", "release", "turn", "cleanup"} /\ op.by \in 0..MaxSessions
      /\ op = Cleanup <=> op.kind = "cleanup"
      /\ op.kind \in {"push", "release"} => op.control \in Control
  BY <1>2, OpFacts
<1>4. /\ op.kind = "push" => sc.aim = op.control /\ sc.aim \in sc.sent
      /\ op.kind # "turn" => sc.aim \in Control
  BY <1>1, <1>2, <1>3 DEF MayBe
<1>5. /\ t \in ScopeRecord /\ t.manager = sc.manager /\ t.cancelled = sc.cancelled
      /\ t.chain = sc.chain /\ t.sent = sc.sent /\ t.todo = sc.todo /\ t.cut = sc.cut
      /\ t.failed = sc.failed /\ t.aim = sc.aim /\ t.run = outcome
      /\ t.unconfirmed = sc.unconfirmed
  BY <1>2 DEF ScopeRecord
<1>6. scopes' = [scopes EXCEPT ![c] = t]
  BY <1>1
<1>7. w \in WireRecord
  <2>1. by \in 0..MaxSessions
    BY <1>3
  <2> HIDE DEF by, op
  <2> QED
    BY <1>2, <1>4, <2>1 DEF WireRecord
<1>8. wire' = [wire EXCEPT ![c] = w]
  <2>1. CASE op.kind = "turn"
    <3>1. w = wire[c] /\ wire' = wire
      BY <1>1, <2>1
    <3> QED
      BY <1>2, <3>1
  <2>2. CASE op.kind # "turn"
    <3> DEFINE b == by
    <3>1. wire' = Written(wire, c, sc.aim, b)
      BY <1>1, <2>2 DEF Written
    <3>2. w = [down |-> [wire[c].down EXCEPT ![sc.aim] = b],
               lost |-> wire[c].lost \ {sc.aim}]
      BY <2>2
    <3> DEFINE a == sc.aim
    <3>3. c \in DOMAIN wire /\ wire \in Seq(WireRecord)
      BY <1>2
    <3>4. /\ wire' = Written(wire, c, a, b)
          /\ w = [down |-> [wire[c].down EXCEPT ![a] = b], lost |-> wire[c].lost \ {a}]
      BY <3>1, <3>2
    <3> HIDE DEF a, b, by, w, sc
    <3>5. Written(wire, c, a, b)
            = [wire EXCEPT ![c] = [down |-> [wire[c].down EXCEPT ![a] = b],
                                   lost |-> wire[c].lost \ {a}]]
      BY <3>3, WireWritten
    <3> QED
      BY <3>4, <3>5
  <2> QED
    BY <2>1, <2>2
<1>9. /\ op.kind = "turn" => w = wire[c]
      /\ op.kind # "turn" => /\ w.lost = wire[c].lost \ {sc.aim}
                             /\ w.down[sc.aim] = by
                             /\ \A i \in Control : i # sc.aim => w.down[i] = wire[c].down[i]
  BY <1>2, <1>4 DEF WireRecord
<1>10. /\ op.kind = "push" => by = op.by
       /\ op.kind # "push" => by = 0
  OBVIOUS
<1> HIDE DEF t, w, by
<1>11. Moves(c, t) /\ scopes'[c] = t /\ wire'[c] = w /\ Len(scopes') = Len(scopes)
  <2>1. /\ wire' \in Seq(WireRecord) /\ Len(wire') = Len(wire) /\ wire'[c] = w
        /\ \A d \in DOMAIN wire : d # c => wire'[d] = wire[d]
    BY <1>2, <1>7, <1>8, ReplaceFacts
  <2>2. scopes'[c] = t /\ Len(scopes') = Len(scopes)
    BY <1>2, <1>5, <1>6, ReplaceFacts
  <2>3. /\ sessions \in Seq(SessionRecord) /\ raising \in Failure
        /\ raising.by <= Len(sessions) /\ told \in BOOLEAN
    BY DEF RemoteInv, Typed
  <2> QED
    BY <1>1, <1>5, <1>6, <2>1, <2>2, <2>3 DEF Moves
<1>12. HeadOf(t) = op /\ t.chain # <<>>
  BY <1>2, <1>5 DEF HeadOf
<1>13. op # Cleanup => session = op.by /\ ~HostGone
  BY <1>1, <1>2 DEF MayBe
<1>14. Fits(c)'
  <2>1. \A j \in DOMAIN t.chain : t.chain[j].by # 0 =>
          t.chain[j].by \in DOMAIN sessions' /\ sessions'[t.chain[j].by].scope = c
    BY <1>1, <1>2, <1>5 DEF MayBe
  <2>2. /\ t.cut => op = Cleanup
        /\ op = Cleanup => t.failed \/ t.sent \subseteq t.todo \cup {t.aim}
    BY <1>1, <1>2, <1>5 DEF MayBe
  <2>3. \A i \in Control : w.down[i] # 0 => i \in t.sent \cup w.lost
    <3>1. \A i \in Control : wire[c].down[i] # 0 => i \in sc.sent \cup wire[c].lost
      BY <1>2 DEF MayBe
    <3> HIDE DEF op, sc
    <3> QED
      BY <1>4, <1>5, <1>9, <1>10, <3>1
  <2>4. op.kind \in {"release", "cleanup"} => t.aim \in Control /\ w.down[t.aim] = 0
    BY <1>4, <1>5, <1>9, <1>10
  <2>5. t.run # "idle" /\ t.run # "queued"
    BY <1>5
  <2> HIDE DEF op
  <2> QED
    BY <1>11, <1>12, <2>1, <2>2, <2>3, <2>4, <2>5, FitsNext
<1>15. HostGone' = HostGone
  BY <1>1 DEF HostGone
<1>16. HostFits(c)'
  <2>1. c = current =>
        /\ ~ready \/ sc.cut => sc.sent = {}
        /\ ~HostGone => \A j, k \in DOMAIN sc.chain :
              sc.chain[j].by = session /\ k > j => sc.chain[k] # Cleanup
        /\ ~HostGone /\ ~sc.unconfirmed =>
              \/ \E j \in DOMAIN sc.chain : sc.chain[j] = Cleanup
              \/ \A i \in Control \ wire[c].lost : wire[c].down[i] \in {0, session}
    BY <1>2 DEF MayBe
  <2>2. (\A i \in Control \ wire[c].lost : wire[c].down[i] \in {0, session})
            => \A i \in Control \ w.lost : w.down[i] \in {0, session}
    <3>1. by \in {0, session}
      <4>1. op.kind = "push" => session = op.by
        BY <1>3, <1>13
      <4> QED
        BY <1>10, <4>1
    <3> HIDE DEF op, sc
    <3> QED
      BY <1>9, <3>1
  <2> HIDE DEF op, sc
  <2>3. c = current =>
        /\ ~ready \/ t.cut => t.sent = {}
        /\ ~HostGone => \A j, k \in DOMAIN t.chain :
              t.chain[j].by = session /\ k > j => t.chain[k] # Cleanup
        /\ ~HostGone /\ ~t.unconfirmed =>
              \/ \E j \in DOMAIN t.chain : t.chain[j] = Cleanup
              \/ \A i \in Control \ w.lost : w.down[i] \in {0, session}
    BY <1>5, <2>1, <2>2
  <2> QED
    BY <1>1, <1>11, <1>15, <2>3 DEF HostFits
<1>17. LossFits(c)'
  <2>1. c = Len(scopes) => \A i \in Control :
            wire[c].down[i] # 0 /\ (current # c \/ i \in wire[c].lost) => told
    BY InvHostFits DEF LossFits
  <2>2. op.kind = "push" => current = c
    <3>1. op.kind = "push" => session = op.by /\ ~HostGone /\ op.by # 0
      BY <1>2, <1>3, <1>13, OpFacts
    <3>2. 1 \in DOMAIN sc.chain /\ sc.chain[1] = op
      BY <1>2, HeadOfFacts
    <3>3. op.by # 0 => sessions[op.by].scope = c
      BY <1>2, <3>2 DEF MayBe
    <3> QED
      BY <3>1, <3>3 DEF RemoteInv, ReadyIsConnected
  <2>3. ASSUME c = Len(scopes), NEW i \in Control, w.down[i] # 0, current # c \/ i \in w.lost
        PROVE  told
    <3> HIDE DEF op, sc
    <3>1. CASE op.kind = "turn"
      BY <1>9, <2>1, <2>3, <3>1
    <3>2. CASE op.kind # "turn" /\ i = sc.aim
      BY <1>9, <1>10, <2>2, <2>3, <3>2
    <3>3. CASE op.kind # "turn" /\ i # sc.aim
      BY <1>9, <2>1, <2>3, <3>3
    <3> QED
      BY <3>1, <3>2, <3>3
  <2> QED
    BY <1>1, <1>11, <2>3 DEF LossFits
<1> QED
  BY <1>11, <1>14, <1>16, <1>17, MoveKeepsInv

-----------------------------------------------------------------------------
(* The theorems *)

\* No connection and no session: there is nothing to violate.
LEMMA RemoteInvInit == ASSUME Init PROVE RemoteInv
<1>1. /\ live = NoManager /\ retired = NoManager /\ ready = FALSE /\ scopes = <<>>
      /\ current = 0 /\ sessions = <<>> /\ session = 0 /\ raising = NoFailure
      /\ told = FALSE /\ awaited = 0 /\ disposed = FALSE /\ wire = <<>>
  BY DEF Init
<1>2. HostGone
  BY <1>1 DEF HostGone
<1>3. Typed
  <2>1. NoFailure \in Failure /\ NoFailure.by = 0
    BY DEF NoFailure, Failure
  <2>2. /\ scopes \in Seq(ScopeRecord) /\ sessions \in Seq(SessionRecord)
        /\ wire \in Seq(WireRecord)
        /\ Len(scopes) = 0 /\ Len(sessions) = 0 /\ Len(wire) = 0 /\ DOMAIN sessions = {}
    BY <1>1
  <2>3. MaxScopes \in Nat /\ MaxSessions \in Nat
    OBVIOUS
  <2>4. /\ live \in Manager \cup {NoManager} /\ retired \in Manager \cup {NoManager}
        /\ ready \in BOOLEAN /\ told \in BOOLEAN /\ disposed \in BOOLEAN
    BY <1>1
  <2>5. /\ raising \in Failure /\ raising.by <= Len(sessions)
        /\ current \in 0..Len(scopes) /\ awaited \in 0..Len(scopes)
        /\ session \in 0..Len(sessions)
    BY <1>1, <2>1, <2>2
  <2>6. \A s \in DOMAIN sessions : sessions[s].scope <= Len(scopes)
    BY <2>2
  <2> QED
    BY <2>2, <2>3, <2>4, <2>5, <2>6 DEF Typed
<1>4. \A c : c \notin DOMAIN scopes
  BY <1>1
<1>5. RunsFirst /\ InputsOfSessions /\ WritesAim /\ CleanupCovers
  BY <1>4 DEF RunsFirst, InputsOfSessions, WritesAim, CleanupCovers
<1>6. OnlyTheHostActs /\ HoldsAreOwed /\ HostsDoNotMix
  BY <1>4 DEF OnlyTheHostActs, HoldsAreOwed, HostsDoNotMix
<1>7. ReadyIsConnected /\ UnreadyOwesNothing /\ InputsComeLast /\ CleanForHost
  BY <1>1, <1>2 DEF ReadyIsConnected, UnreadyOwesNothing, InputsComeLast, CleanForHost
<1>8. LossIsReported
  <2>1. Len(scopes) = 0
    BY <1>1
  <2> QED
    BY <2>1 DEF LossIsReported
<1> QED
  BY <1>3, <1>5, <1>6, <1>7, <1>8 DEF RemoteInv

\* Nothing changes in a stuttering step.
LEMMA RemoteInvStutter == ASSUME RemoteInv, UNCHANGED vars PROVE RemoteInv'
<1>1. UNCHANGED <<live, retired, ready, scopes, current, sessions, session, raising, told,
                  awaited, disposed, wire>>
  BY DEF vars, delegate
<1>2. HostGone' = HostGone
  BY <1>1 DEF HostGone
<1>3. Typed'
  BY <1>1 DEF RemoteInv, Typed
<1>4. RunsFirst' /\ InputsOfSessions' /\ WritesAim' /\ CleanupCovers'
  BY <1>1 DEF RemoteInv, RunsFirst, InputsOfSessions, WritesAim, CleanupCovers, HeadOf
<1>5. OnlyTheHostActs' /\ HoldsAreOwed' /\ HostsDoNotMix' /\ LossIsReported'
  BY <1>1, <1>2 DEF RemoteInv, OnlyTheHostActs, HoldsAreOwed, HostsDoNotMix, LossIsReported
<1>6. ReadyIsConnected' /\ UnreadyOwesNothing' /\ InputsComeLast' /\ CleanForHost'
  BY <1>1, <1>2 DEF RemoteInv, ReadyIsConnected, UnreadyOwesNothing, InputsComeLast,
    CleanForHost
<1> QED
  BY <1>3, <1>4, <1>5, <1>6 DEF RemoteInv

\* Each action of the delegate keeps the invariant.
LEMMA RemoteInvStep == ASSUME RemoteInv, [Next]_vars PROVE RemoteInv'
<1>1. CASE \E m \in Manager \cup {NoManager}, capable \in BOOLEAN : Change(m, capable)
  BY <1>1, ChangeStep
<1>2. CASE GiveUp
  <2>1. /\ Clear /\ UNCHANGED <<live, raising, wire>>
        /\ disposed' = disposed /\ awaited' = awaited
    BY <1>2 DEF GiveUp
  <2>2. disposed' \in BOOLEAN /\ awaited' \in 0..Len(scopes)
    BY <2>1 DEF RemoteInv, Typed
  <2> QED
    BY <2>1, <2>2, ClearStep
<1>3. CASE Open
  BY <1>3, OpenStep
<1>4. CASE Close
  BY <1>4, CloseStep
<1>5. CASE Input
  <2>1. CASE \E i \in Control : Send("push", i)
    BY <2>1, SendStep
  <2>2. CASE \E i \in Control : Send("release", i)
    BY <2>2, SendStep
  <2>3. CASE Send("turn", NoControl)
    BY <2>3, SendStep
  <2> QED
    BY <1>5, <2>1, <2>2, <2>3 DEF Input
<1>6. CASE Dispose \/ Disposed
  BY <1>6, DisposeStep
<1>7. CASE Catch
  BY <1>7, CatchStep
<1>8. CASE \E c \in DOMAIN scopes : Proceed(c)
  <2>1. PICK c \in DOMAIN scopes : Proceed(c)
    BY <1>8
  <2>2. CASE Start(c)
    BY <2>2, StartStep
  <2>3. CASE Fail(c)
    BY <2>3, FailStep
  <2>4. CASE InputReturns(c)
    BY <2>4, InputReturnsStep
  <2>5. CASE ReleaseReturns(c)
    BY <2>5, ReleaseReturnsStep
  <2>6. CASE \E outcome \in {"written", "failed"} : Deliver(c, outcome)
    BY <2>6, DeliverStep
  <2> QED
    BY <2>1, <2>2, <2>3, <2>4, <2>5, <2>6 DEF Proceed
<1>9. CASE UNCHANGED vars
  BY <1>9, RemoteInvStutter
<1> QED
  BY <1>1, <1>2, <1>3, <1>4, <1>5, <1>6, <1>7, <1>8, <1>9 DEF Next

\* The invariant holds in every reachable state.
LEMMA RemoteInvAlways == Spec => []RemoteInv
<1>1. Init => RemoteInv
  BY RemoteInvInit
<1>2. RemoteInv /\ [Next]_vars => RemoteInv'
  BY RemoteInvStep
<1> QED
  BY <1>1, <1>2, PTL DEF Spec

(***************************************************************************)
(* The types of connections, sessions and inputs, and that what runs is    *)
(* the first operation of its chain (_serialize).                          *)
(***************************************************************************)
THEOREM RemoteTypesAreKept == Spec => []TypeOK
<1>1. RemoteInv => TypeOK
  <2> SUFFICES ASSUME RemoteInv PROVE TypeOK
    OBVIOUS
  <2>1. /\ scopes \in Seq(ScopeRecord) /\ sessions \in Seq(SessionRecord)
        /\ DOMAIN scopes = 1..Len(scopes) /\ DOMAIN sessions = 1..Len(sessions)
        /\ Len(scopes) \in Nat /\ Len(sessions) \in Nat /\ DOMAIN wire = DOMAIN scopes
        /\ \A c \in DOMAIN scopes : scopes[c] \in ScopeRecord
        /\ \A s \in DOMAIN sessions : sessions[s] \in SessionRecord
    BY LenProperties, ElementOfSeq DEF RemoteInv, Typed
  <2>2. /\ live \in Manager \cup {NoManager} /\ retired \in Manager \cup {NoManager}
        /\ {ready, told, disposed} \subseteq BOOLEAN
        /\ current \in 0..Len(scopes) /\ awaited \in 0..Len(scopes)
        /\ session \in 0..Len(sessions)
    BY DEF RemoteInv, Typed
  <2>3. raising.by \in 0..Len(sessions)
    BY <2>1 DEF RemoteInv, Typed, Failure
  <2>4. ASSUME NEW c \in DOMAIN scopes
        PROVE  LET sc == scopes[c] IN
               /\ sc.manager \in Manager /\ sc.chain \in Seq(Ops)
               /\ {sc.unconfirmed, sc.cancelled, sc.failed, sc.cut} \subseteq BOOLEAN
               /\ sc.sent \subseteq Control /\ sc.todo \subseteq Control
               /\ sc.run \in {"idle", "queued", "written", "failed", "cancelled"}
               /\ sc.chain = <<>> => sc.run = "idle"
               /\ sc.run = "idle" => sc.aim = NoControl
    <3>1. scopes[c] \in ScopeRecord
      BY <2>1
    <3>2. /\ scopes[c].chain = <<>> => scopes[c].run = "idle"
          /\ scopes[c].run = "idle" => scopes[c].aim = NoControl
      BY DEF RemoteInv, RunsFirst
    <3> QED
      BY <3>1, <3>2 DEF ScopeRecord
  <2>5. ASSUME NEW s \in DOMAIN sessions
        PROVE  /\ sessions[s].scope \in DOMAIN scopes /\ sessions[s].held \subseteq Control
               /\ sessions[s].cancelled \in BOOLEAN
    <3>1. sessions[s] \in SessionRecord /\ sessions[s].scope <= Len(scopes)
      BY <2>1 DEF RemoteInv, Typed
    <3> QED
      BY <2>1, <3>1 DEF SessionRecord
  <2> QED
    BY <2>1, <2>2, <2>3, <2>4, <2>5 DEF TypeOK
<1> QED
  BY <1>1, RemoteInvAlways, PTL

(***************************************************************************)
(* Whatever the state changes to, and whenever a connection is given up,   *)
(* a host that may still act belongs to the connection that is shown.      *)
(***************************************************************************)
THEOREM LiveHostIsAlwaysConnected == Spec => []LiveHostIsConnected
<1>1. RemoteInv => LiveHostIsConnected
  <2> SUFFICES ASSUME RemoteInv, ~HostGone
               PROVE  LET c == sessions[session].scope IN
                      /\ ready /\ ~disposed /\ current = c
                      /\ scopes[c].manager = live /\ retired # live /\ ~scopes[c].cancelled
    BY DEF LiveHostIsConnected
  <2>1. /\ ready /\ session # 0 /\ current # 0 /\ ~disposed
        /\ scopes[current].manager = live /\ retired = NoManager
        /\ ~scopes[current].cancelled /\ sessions[session].scope = current
    BY DEF RemoteInv, ReadyIsConnected, HostGone
  <2>2. scopes[current] \in ScopeRecord
    BY <2>1, HostScope
  <2>3. live # NoManager
    BY <2>1, <2>2 DEF ScopeRecord, Manager, NoManager
  <2> QED
    BY <2>1, <2>3
<1> QED
  BY <1>1, RemoteInvAlways, PTL

\* An input that may still be written is one of the host that is live now:
\* closing, replacing, losing or giving up a connection withdraws the rest.
THEOREM OnlyTheHostEverActs == Spec => []OnlyTheHostActs
<1>1. RemoteInv => OnlyTheHostActs
  BY DEF RemoteInv
<1> QED
  BY <1>1, RemoteInvAlways, PTL

\* No input of a host is written while controls are down that another host
\* pushed: the cleanup of the former host came first, and it succeeded.
THEOREM HostsNeverMix == Spec => []HostsDoNotMix
<1>1. RemoteInv => HostsDoNotMix
  BY DEF RemoteInv
<1> QED
  BY <1>1, RemoteInvAlways, PTL

\* A control that may be down is never forgotten, whichever write fails after
\* it was delivered.
THEOREM HoldsAreAlwaysOwed == Spec => []HoldsAreOwed
<1>1. RemoteInv => HoldsAreOwed
  BY DEF RemoteInv
<1> QED
  BY <1>1, RemoteInvAlways, PTL

\* Controls that were left down without a way to release them are reported.
THEOREM LossIsAlwaysReported == Spec => []LossIsReported
<1>1. RemoteInv => LossIsReported
  BY DEF RemoteInv
<1> QED
  BY <1>1, RemoteInvAlways, PTL
=============================================================================
