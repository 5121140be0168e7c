------------------------------ MODULE IosProofs ------------------------------
(***************************************************************************)
(* The drivers of the iOS app: for every set of clients, size of the image *)
(* and number of queries and transfers, the firmware session has one       *)
(* client and follows the device, a status of the bootloader is fresh, and *)
(* what an interrupt transfer holds is released.                           *)
(***************************************************************************)
EXTENDS FirmwareSession, InitialSdp, InterruptRead, SequenceTheorems, FiniteSetTheorems,
        TLAPS

-----------------------------------------------------------------------------
(***************************************************************************)
(* The firmware session.  A client that holds the session while it is not  *)
(* connected is left over from a failure, which the session does not       *)
(* survive; so a handshake that is let through finds no other client.      *)
(***************************************************************************)

HeldOrFailed == fwHas # {} => fwConnected \/ fwPhase = "failed"

fwInv == OneClient /\ HeldOrFailed

USE SessionAssumption

\* The first state.
LEMMA fwInitInv == fwInit => fwInv
  BY DEF fwInit, fwInv, OneClient, HeldOrFailed

LEMMA fwHandshakeStep == ASSUME fwInv, NEW c \in Client, Handshake(c) PROVE fwInv'
<1>1. fwHas = {}
  BY DEF fwInv, HeldOrFailed, Handshake
<1> QED
  BY <1>1 DEF Handshake, Unlocked, fwCall, fwInv, OneClient, HeldOrFailed

LEMMA fwClientStopStep == ASSUME fwInv, NEW c \in Client, ClientStop(c) PROVE fwInv'
<1>1. CASE c \in fwHas
  <2>1. fwHas' = {}
    BY <1>1 DEF ClientStop, fwInv, OneClient
  <2> QED
    BY <1>1, <2>1 DEF ClientStop, Fail, fwInv, OneClient, HeldOrFailed
<1>2. CASE c \notin fwHas
  BY <1>2 DEF ClientStop, fwSession, fwCall, fwInv, OneClient, HeldOrFailed
<1> QED
  BY <1>1, <1>2

\* A failure leaves the client, and nothing connected.
LEMMA fwFailStep == ASSUME fwInv, Fail, UNCHANGED fwHas PROVE fwInv'
  BY DEF Fail, fwInv, OneClient, HeldOrFailed

\* A call that takes the lock is the client's; the set-up stays.
LEMMA fwCallStep ==
    ASSUME fwInv, NEW c \in Client, Executes(c), fwCaller' = c,
           UNCHANGED <<fwHas, fwConnected, fwPhase>>
    PROVE  fwInv'
  BY DEF Executes, fwInv, OneClient, HeldOrFailed

\* begin, append, advance and cancel.
LEMMA fwExecuteStep ==
    ASSUME fwInv, NEW c \in Client,
           \/ Advance(c) \/ CancelSession(c)
           \/ \E n \in 0..MaxTotal : Begin(c, n)
           \/ \E n \in 1..MaxTotal : AppendData(c, n)
    PROVE  fwInv'
<1>0. Executes(c) /\ UNCHANGED fwHas
  BY DEF Advance, CancelSession, Begin, AppendData, CallFrame, fwClients
<1>1. Fail \/ (fwCaller' = c /\ UNCHANGED <<fwConnected, fwPhase>>)
  BY DEF Advance, CancelSession, Begin, AppendData, Transfers
<1> QED
  BY <1>0, <1>1, fwFailStep, fwCallStep

\* A transfer of the call under way, or its return.
LEMMA fwTransferStep == ASSUME fwInv, fwTransfer PROVE fwInv'
<1>0. UNCHANGED fwHas
  BY DEF fwTransfer, Send, SendFails, Receive, ReceiveFails, CallReturns, TransferFrame,
         fwClients
<1>1. \/ Fail
      \/ UNCHANGED <<fwCaller, fwConnected, fwPhase>>
      \/ fwCaller # NoClient /\ fwCaller' = NoClient /\ UNCHANGED fwConnected
  BY DEF fwTransfer, Send, SendFails, Receive, ReceiveFails, CallReturns, fwSession
<1>2. CASE Fail
  BY <1>0, <1>2, fwFailStep
<1>3. CASE UNCHANGED <<fwCaller, fwConnected, fwPhase>>
  BY <1>0, <1>3 DEF fwInv, OneClient, HeldOrFailed
<1>4. CASE fwCaller # NoClient /\ fwCaller' = NoClient /\ UNCHANGED fwConnected
  BY <1>0, <1>4 DEF fwInv, OneClient, HeldOrFailed
<1> QED
  BY <1>1, <1>2, <1>3, <1>4

\* Every step keeps the invariant.
LEMMA fwStep == fwInv /\ [fwNext]_fwVars => fwInv'
<1> SUFFICES ASSUME fwInv, [fwNext]_fwVars PROVE fwInv'
  OBVIOUS
<1>1. ASSUME NEW c \in Client, Handshake(c) PROVE fwInv'
  BY <1>1, fwHandshakeStep
<1>2. ASSUME NEW c \in Client, ClientStop(c) PROVE fwInv'
  BY <1>2, fwClientStopStep
<1>3. ASSUME NEW c \in Client,
             \/ Advance(c) \/ CancelSession(c)
             \/ \E n \in 0..MaxTotal : Begin(c, n)
             \/ \E n \in 1..MaxTotal : AppendData(c, n)
      PROVE  fwInv'
  BY <1>3, fwExecuteStep
<1>4. CASE fwTransfer
  BY <1>4, fwTransferStep
<1>5. CASE Unplug \/ DriverStop
  BY <1>5 DEF Unplug, DriverStop, fwSession, fwClients, fwCall, fwInv, OneClient,
              HeldOrFailed
<1>6. CASE DriverDisconnect
  BY <1>6, fwFailStep DEF DriverDisconnect, fwClients
<1>7. CASE UNCHANGED fwVars
  BY <1>7 DEF fwVars, fwSession, fwClients, fwCall, fwInv, OneClient, HeldOrFailed
<1> QED
  BY <1>1, <1>2, <1>3, <1>4, <1>5, <1>6, <1>7 DEF fwNext

(***************************************************************************)
(* For every set of clients and size of the image, the session never has   *)
(* two clients, and a call that holds the lock is its client's.            *)
(***************************************************************************)
THEOREM AlwaysOneClient == fwSpec => []OneClient
<1>1. fwInv => OneClient
  BY DEF fwInv
<1> QED
  BY <1>1, fwInitInv, fwStep, PTL DEF fwSpec

-----------------------------------------------------------------------------
(***************************************************************************)
(* The device.  During a call the device is in step with the driver: what  *)
(* is still to be sent continues the recipe where the device is, and the   *)
(* wire has the answers the call is still to read.  Once a command was     *)
(* refused this is over, but then the refusal is the next thing on the     *)
(* wire, and the session fails when it reads it; until it does, nothing    *)
(* but unconfirmed packets is added.                                       *)
(***************************************************************************)

\* The i-th step of the recipe.
RecipeStep(rom, total, i) ==
    IF rom
    THEN IF i = 1 THEN "download" ELSE IF i <= total + 1 THEN "data" ELSE "jump"
    ELSE CASE i = 1 -> "property"   [] i = 2 -> "fillConfig" [] i = 3 -> "configure"
           [] i = 4 -> "erase"      [] i = 5 -> "fillFcb"    [] i = 6 -> "configure"
           [] i = 7 -> "write"      [] i \in 8..total+7 -> "data"
           [] i > total + 7 -> "reset"

\* The device has run the first n steps, and the wire is w.
InStep(n, w) ==
    /\ Len(fwRan) = n /\ \A i \in 1..n : fwRan[i] = RecipeStep(fwRom, fwTotal, i)
    /\ fwWire = w

\* The same after a step.
InStepNext(n, w) ==
    /\ Len(fwRan') = n /\ \A i \in 1..n : fwRan'[i] = RecipeStep(fwRom', fwTotal', i)
    /\ fwWire' = w

Refused == fwWire # <<>> /\ Head(fwWire) = "error"

FollowsPhase ==
    /\ Confirmed <= Len(fwRan)
    /\ \A i \in 1..Confirmed : fwRan[i] = RecipeStep(fwRom, fwTotal, i)
    /\ \A i \in Confirmed+1 .. Len(fwRan) : fwRan[i] \in Unconfirmed

\* A command and its answer, when the device has run n steps before it.
Exchange(command, answer, n) ==
    \/ fwTodo = <<Out(command), In(answer)>> /\ InStep(n, <<>>)
    \/ fwTodo = <<In(answer)>> /\ (InStep(n + 1, <<answer>>) \/ Refused)
    \/ fwTodo = <<>> /\ InStep(n + 1, <<>>)

\* The configuration: two exchanges.
Configuring(command, n) ==
    \/ /\ fwTodo = <<Out(command), In("fill"), Out("configure"), In("configure")>>
       /\ InStep(n, <<>>)
    \/ /\ fwTodo = <<In("fill"), Out("configure"), In("configure")>>
       /\ InStep(n + 1, <<"fill">>) \/ Refused
    \/ Exchange("configure", "configure", n + 1)

\* The steps before the packets.
Base == IF fwRom THEN 1 ELSE 7

\* Packets are being sent, and not all have been.
Loading == InStep(Base + fwSent, <<>>) \/ (Refused /\ FollowsPhase)

AfterData == IF fwRom THEN "uploaded" ELSE "written"

\* A call of append, with the last packet or without.
Appending ==
    \/ /\ fwThen = fwPhase /\ Loading
       /\ \E k \in 0..MaxTotal : fwSent + k < fwTotal /\ fwTodo = Data(k)
    \/ /\ fwThen = AfterData /\ Loading
       /\ \E k \in 1..MaxTotal : fwSent + k = fwTotal /\ fwTodo = Data(k) \o Receipt
    \/ /\ fwThen = AfterData /\ fwSent = fwTotal
       /\ \/ /\ fwRom /\ fwTodo = <<In("hab"), In("status")>>
             /\ InStep(1 + fwTotal, <<"hab", "status">>) \/ Refused
          \/ /\ fwRom /\ fwTodo = <<In("status")>>
             /\ InStep(1 + fwTotal, <<"status">>) \/ Refused
          \/ /\ ~fwRom /\ fwTodo = <<In("write")>>
             /\ InStep(7 + fwTotal, <<"write">>) \/ Refused
          \/ fwTodo = <<>> /\ InStep(Base + fwTotal, <<>>)

\* begin, in the ROM: the command has no answer.
Downloading ==
    \/ fwTodo = <<Out("download")>> /\ InStep(0, <<>>)
    \/ fwTodo = <<>> /\ (InStep(1, <<>>) \/ (Refused /\ fwRan = <<>>))

InCall ==
    \/ fwPhase = "ready" /\ fwRom /\ fwThen = "uploading" /\ Downloading
    \/ fwPhase \in {"uploading", "writing"} /\ Appending
    \/ /\ fwPhase = "uploaded" /\ fwThen = "jumped"
       /\ Exchange("jump", "hab", 1 + fwTotal)
    \/ /\ fwPhase = "ready" /\ ~fwRom /\ fwThen = "loaderReady"
       /\ Exchange("property", "property", 0)
    \/ fwPhase = "loaderReady" /\ fwThen = "configured" /\ Configuring("fillConfig", 1)
    \/ fwPhase = "configured" /\ fwThen = "erased" /\ Exchange("erase", "erase", 3)
    \/ fwPhase = "erased" /\ fwThen = "fcbCreated" /\ Configuring("fillFcb", 4)
    \/ fwPhase = "fcbCreated" /\ fwThen = "writing" /\ Exchange("write", "write", 6)
    \/ /\ fwPhase = "written" /\ fwThen = "reset"
       /\ Exchange("reset", "reset", 7 + fwTotal)

BetweenCalls ==
    /\ fwTodo = <<>>
    /\ IF fwPhase \in {"uploading", "writing"} THEN fwSent < fwTotal /\ Loading
       ELSE InStep(Confirmed, <<>>)

\* Which phases each loader has, and when there is an image.
PhaseFits ==
    /\ fwRom => fwPhase \in {"ready", "uploading", "uploaded", "jumped"}
    /\ ~fwRom => fwPhase \in {"ready", "loaderReady", "configured", "erased", "fcbCreated",
                              "writing", "written", "reset"}
    /\ fwPhase \in {"ready", "loaderReady", "configured", "erased", "fcbCreated"} =>
         fwSent = 0
    /\ fwPhase # "ready" \/ ~Unlocked => 0 < fwTotal

Synchronized ==
    /\ fwPhase = "failed" => Unlocked /\ fwTodo = <<>> /\ ~fwConnected
    /\ fwPhase # "failed" =>
         PhaseFits /\ (IF Unlocked THEN BetweenCalls ELSE InCall)

devInv == fwTypeOK /\ fwInv /\ Synchronized

-----------------------------------------------------------------------------
(* Sequences of transfers *)

\* Heads and tails of short sequences.
LEMMA fwTuples ==
    /\ \A a : Head(<<a>>) = a /\ Tail(<<a>>) = <<>> /\ <<a>> # <<>>
    /\ \A a, b : Head(<<a, b>>) = a /\ Tail(<<a, b>>) = <<b>> /\ <<a, b>> # <<>>
    /\ \A a, b, c : Head(<<a, b, c>>) = a /\ Tail(<<a, b, c>>) = <<b, c>> /\ <<a, b, c>> # <<>>
    /\ \A a, b, c, d : Head(<<a, b, c, d>>) = a /\ Tail(<<a, b, c, d>>) = <<b, c, d>> /\ <<a, b, c, d>> # <<>>
  OBVIOUS

\* Two exchanges, one after the other.
LEMMA fwTwoFixed ==
    ASSUME NEW c1, NEW a1, NEW c2, NEW a2
    PROVE  Fixed(c1, a1) \o Fixed(c2, a2) = <<Out(c1), In(a1), Out(c2), In(a2)>>
<1>1. ASSUME NEW a, NEW b, NEW c, NEW d
      PROVE  <<a, b>> \o <<c, d>> = <<a, b, c, d>>
  <2> DEFINE S == {a, b, c, d}
  <2>1. /\ <<a, b>> \in Seq(S) /\ <<c, d>> \in Seq(S) /\ <<a, b, c, d>> \in Seq(S)
        /\ Len(<<a, b>>) = 2 /\ Len(<<c, d>>) = 2 /\ Len(<<a, b, c, d>>) = 4
    OBVIOUS
  <2>2. /\ <<a, b>> \o <<c, d>> \in Seq(S) /\ Len(<<a, b>> \o <<c, d>>) = 4
        /\ \A i \in 1..4 : (<<a, b>> \o <<c, d>>)[i] =
                           IF i <= 2 THEN <<a, b>>[i] ELSE <<c, d>>[i - 2]
    BY <2>1, ConcatProperties
  <2>3. \A i \in 1..4 : (<<a, b>> \o <<c, d>>)[i] = <<a, b, c, d>>[i]
    BY <2>2
  <2> QED
    BY <2>1, <2>2, <2>3, SeqEqual
<1> QED
  BY <1>1 DEF Fixed

Transfer == [out : {TRUE}, what : Command] \cup [out : {FALSE}, what : Answer]

\* What a call sends and reads is typed.
LEMMA fwOutIn ==
    /\ \A c \in Command : Out(c) \in Transfer
    /\ \A a \in Answer : In(a) \in Transfer
<1>1. ASSUME NEW c \in Command PROVE Out(c) \in Transfer
  <2>1. TRUE \in {TRUE}
    OBVIOUS
  <2>2. [out |-> TRUE, what |-> c] \in [out : {TRUE}, what : Command]
    BY <2>1, Zenon
  <2> QED
    BY <2>2 DEF Out, Transfer
<1>2. ASSUME NEW a \in Answer PROVE In(a) \in Transfer
  <2>1. FALSE \in {FALSE}
    OBVIOUS
  <2>2. [out |-> FALSE, what |-> a] \in [out : {FALSE}, what : Answer]
    BY <2>1, Zenon
  <2> QED
    BY <2>2 DEF In, Transfer
<1> QED
  BY <1>1, <1>2

\* Packets, one by one.
LEMMA fwData ==
    ASSUME NEW k \in Nat
    PROVE  /\ Data(k) \in Seq(Transfer) /\ Len(Data(k)) = k
           /\ \A i \in 1..k : Data(k)[i] = Out("data")
           /\ Data(0) = <<>>
           /\ k > 0 => /\ Data(k) # <<>> /\ Head(Data(k)) = Out("data")
                       /\ Tail(Data(k)) = Data(k - 1)
<1>1. Out("data") \in Transfer
  BY fwOutIn DEF Command
<1>2. \A j \in Nat : /\ Data(j) \in Seq(Transfer) /\ Len(Data(j)) = j
                     /\ \A i \in 1..j : Data(j)[i] = Out("data")
  BY <1>1 DEF Data
<1>3. Data(0) = <<>>
  BY <1>2
<1>4. ASSUME k > 0
      PROVE  /\ Data(k) # <<>> /\ Head(Data(k)) = Out("data")
             /\ Tail(Data(k)) = Data(k - 1)
  <2>1. Data(k) # <<>> /\ Head(Data(k)) = Out("data")
    BY <1>2, <1>4
  <2>2. Tail(Data(k)) \in Seq(Transfer) /\ Len(Tail(Data(k))) = k - 1
        /\ \A i \in 1..k-1 : Tail(Data(k))[i] = Data(k)[i + 1]
    BY <1>2, <2>1, HeadTailProperties
  <2>3. k - 1 \in Nat
    BY <1>4
  <2>4. ASSUME NEW i \in 1..k-1 PROVE Tail(Data(k))[i] = Data(k - 1)[i]
    <3>1. i + 1 \in 1..k
      BY <1>4
    <3>2. Data(k)[i + 1] = Out("data") /\ Data(k - 1)[i] = Out("data")
      BY <1>2, <2>3, <3>1
    <3> QED
      BY <2>2, <3>2
  <2> QED
    BY <1>2, <2>1, <2>2, <2>3, <2>4, SeqEqual
<1> QED
  BY <1>2, <1>3, <1>4

\* Packets, and what is read after them.
LEMMA fwDataThen ==
    ASSUME NEW k \in Nat, k > 0, NEW r \in Seq(Transfer)
    PROVE  /\ Data(k) \o r \in Seq(Transfer) /\ Data(k) \o r # <<>>
           /\ Head(Data(k) \o r) = Out("data")
           /\ Tail(Data(k) \o r) = Data(k - 1) \o r
           /\ Data(0) \o r = r
<1>0. k - 1 \in Nat
  OBVIOUS
<1>1. /\ Data(k) \in Seq(Transfer) /\ Len(Data(k)) = k
      /\ \A i \in 1..k : Data(k)[i] = Out("data")
      /\ Data(k - 1) \in Seq(Transfer) /\ Len(Data(k - 1)) = k - 1
      /\ \A i \in 1..k-1 : Data(k - 1)[i] = Out("data")
  BY <1>0, fwData
<1> DEFINE s == Data(k) \o r
           t == Data(k - 1) \o r
<1>c. ASSUME NEW d \in Seq(Transfer)
      PROVE  /\ d \o r \in Seq(Transfer) /\ Len(d \o r) = Len(d) + Len(r)
             /\ \A i \in 1 .. Len(d) + Len(r) :
                    (d \o r)[i] = IF i <= Len(d) THEN d[i] ELSE r[i - Len(d)]
  BY ConcatProperties
<1>2. /\ s \in Seq(Transfer) /\ Len(s) = k + Len(r)
      /\ \A i \in 1 .. k + Len(r) : s[i] = IF i <= k THEN Data(k)[i] ELSE r[i - k]
  BY <1>1, <1>c
<1>3. /\ t \in Seq(Transfer) /\ Len(t) = k - 1 + Len(r)
      /\ \A i \in 1 .. k - 1 + Len(r) :
             t[i] = IF i <= k - 1 THEN Data(k - 1)[i] ELSE r[i - (k - 1)]
  BY <1>1, <1>c
<1>l. Len(r) \in Nat
  BY LenProperties
<1> HIDE DEF s, t
<1>4. s # <<>> /\ s[1] = Out("data")
  <2>1. 1 \in 1..k /\ 1 \in 1 .. k + Len(r)
    BY <1>l
  <2>2. s[1] = Data(k)[1]
    BY <1>2, <2>1
  <2>3. Len(s) # 0
    BY <1>2, <1>l
  <2> QED
    BY <1>1, <2>1, <2>2, <2>3
<1>5. Head(s) = Out("data")
  BY <1>4, <1>2
<1>6. Tail(s) \in Seq(Transfer) /\ Len(Tail(s)) = k - 1 + Len(r)
      /\ \A i \in 1 .. k - 1 + Len(r) : Tail(s)[i] = s[i + 1]
  <2>1. Tail(s) \in Seq(Transfer) /\ Len(Tail(s)) = Len(s) - 1
        /\ \A i \in 1 .. Len(Tail(s)) : Tail(s)[i] = s[i + 1]
    BY <1>2, <1>4, HeadTailProperties
  <2> QED
    BY <2>1, <1>2, <1>l
<1>7. ASSUME NEW i \in 1 .. k - 1 + Len(r) PROVE Tail(s)[i] = t[i]
  <2>1. i + 1 \in 1 .. k + Len(r) /\ Tail(s)[i] = s[i + 1]
    BY <1>6, <1>l
  <2>2. CASE i <= k - 1
    <3>1. i + 1 \in 1..k /\ i \in 1..k-1
      BY <2>2
    <3>2. s[i + 1] = Data(k)[i + 1] /\ t[i] = Data(k - 1)[i]
      BY <1>2, <1>3, <2>1, <3>1
    <3> QED
      BY <1>1, <2>1, <3>1, <3>2
  <2>3. CASE ~(i <= k - 1)
    <3>1. ~(i + 1 <= k) /\ i + 1 - k = i - (k - 1)
      BY <2>3
    <3> QED
      BY <1>2, <1>3, <2>1, <2>3, <3>1
  <2> QED
    BY <2>2, <2>3
<1>8. Tail(s) = t
  BY <1>3, <1>6, <1>7, SeqEqual
<1>9. Data(0) \o r = r
  BY fwData, ConcatEmptySeq
<1> QED
  BY <1>2, <1>4, <1>5, <1>8, <1>9 DEF s, t

\* The transfers of each kind of call.
LEMMA fwTransferTypes ==
    /\ Receipt \in Seq(Transfer) /\ BeginTransfers \in Seq(Transfer)
    /\ AdvanceTransfers \in Seq(Transfer)
    /\ \A k \in Nat : Data(k) \in Seq(Transfer) /\ Data(k) \o Receipt \in Seq(Transfer)
<1>1. \A c \in Command : Out(c) \in Transfer
  BY fwOutIn
<1>2. \A a \in Answer : In(a) \in Transfer
  BY fwOutIn
<1>3. /\ {"download", "jump", "property", "fillConfig", "fillFcb", "configure", "erase",
          "write", "reset"} \subseteq Command
      /\ {"hab", "status", "property", "fill", "configure", "erase", "write", "reset"}
           \subseteq Answer
  BY DEF Command, Answer
<1>4. \A c \in Command, a \in Answer : <<Out(c), In(a)>> \in Seq(Transfer)
  BY <1>1, <1>2
<1>5. \A c, d \in Command, a, b \in Answer :
          <<Out(c), In(a), Out(d), In(b)>> \in Seq(Transfer)
  BY <1>1, <1>2
<1>6. Receipt \in Seq(Transfer)
  BY <1>2, <1>3 DEF Receipt
<1>7. BeginTransfers \in Seq(Transfer)
  BY <1>1, <1>3, <1>4 DEF BeginTransfers, Fixed
<1>8. AdvanceTransfers \in Seq(Transfer)
  <2>1. /\ Fixed("fillConfig", "fill") \o Fixed("configure", "configure") =
               <<Out("fillConfig"), In("fill"), Out("configure"), In("configure")>>
        /\ Fixed("fillFcb", "fill") \o Fixed("configure", "configure") =
               <<Out("fillFcb"), In("fill"), Out("configure"), In("configure")>>
    BY fwTwoFixed
  <2>2. /\ Fixed("fillConfig", "fill") \o Fixed("configure", "configure") \in Seq(Transfer)
        /\ Fixed("fillFcb", "fill") \o Fixed("configure", "configure") \in Seq(Transfer)
    <3>1. /\ "fillConfig" \in Command /\ "fillFcb" \in Command /\ "configure" \in Command
          /\ "fill" \in Answer /\ "configure" \in Answer
      BY <1>3
    <3>2. /\ <<Out("fillConfig"), In("fill"), Out("configure"), In("configure")>>
                \in Seq(Transfer)
          /\ <<Out("fillFcb"), In("fill"), Out("configure"), In("configure")>>
                \in Seq(Transfer)
      BY <1>5, <3>1
    <3> QED
      BY <2>1, <3>2
  <2>3. /\ Fixed("jump", "hab") \in Seq(Transfer) /\ Fixed("erase", "erase") \in Seq(Transfer)
        /\ Fixed("write", "write") \in Seq(Transfer)
        /\ Fixed("reset", "reset") \in Seq(Transfer)
    BY <1>3, <1>4 DEF Fixed
  <2> QED
    BY <2>2, <2>3 DEF AdvanceTransfers
<1>9. ASSUME NEW k \in Nat
      PROVE  Data(k) \in Seq(Transfer) /\ Data(k) \o Receipt \in Seq(Transfer)
  <2>1. Data(k) \in Seq(Transfer)
    BY fwData
  <2> QED
    BY <1>6, <2>1, ConcatProperties
<1> QED
  BY <1>6, <1>7, <1>8, <1>9

-----------------------------------------------------------------------------
(* What a transfer does *)

\* A transfer is what it was made from.
LEMMA fwOutOrIn ==
    ASSUME NEW x
    PROVE  Out(x).out /\ Out(x).what = x /\ ~In(x).out /\ In(x).what = x
  BY DEF Out, In

\* The driver's count of packets is the device's.
LEMMA fwCount ==
    ASSUME fwTypeOK, InStep(Base + fwSent, <<>>), fwSent <= fwTotal
    PROVE  CountData = fwSent
<1>1. fwSent \in Nat /\ fwTotal \in Nat /\ Base \in Nat /\ fwRan \in Seq(Command)
  BY DEF fwTypeOK, Base
<1>2. DOMAIN fwRan = 1 .. Base + fwSent
  BY <1>1, LenProperties DEF InStep
<1>3. \A i \in 1 .. Base + fwSent :
          RecipeStep(fwRom, fwTotal, i) = "data" <=> i \in Base+1 .. Base+fwSent
  BY <1>1 DEF RecipeStep, Base, fwTypeOK
<1>4. {i \in DOMAIN fwRan : fwRan[i] = "data"} = Base+1 .. Base+fwSent
  BY <1>1, <1>2, <1>3 DEF InStep
<1>5. Cardinality(Base+1 .. Base+fwSent) = fwSent
  <2>1. Cardinality(Base+1 .. Base+fwSent) =
            IF Base + 1 > Base + fwSent THEN 0 ELSE Base + fwSent - (Base + 1) + 1
    BY <1>1, FS_Interval
  <2> QED
    BY <1>1, <2>1
<1> QED
  BY <1>4, <1>5 DEF CountData

\* The device answers with answers.
LEMMA fwAnswersType ==
    ASSUME NEW c \in Command
    PROVE  Answers(c) \in Seq(Answer)
<1>1. c # "data" /\ c # "download" /\ c # "jump" /\ c # "fillConfig" /\ c # "fillFcb" => c \in Answer
  BY DEF Command, Answer
<1>2. "hab" \in Answer /\ "status" \in Answer /\ "write" \in Answer /\ "fill" \in Answer
  BY DEF Answer
<1> QED
  BY <1>1, <1>2 DEF Answers

\* A command that continues the recipe, on an empty wire: it is run and
\* answered, or refused.
LEMMA fwDeliver ==
    ASSUME fwTypeOK, NEW n \in Nat, InStep(n, <<>>),
           NEW c \in Command, c = RecipeStep(fwRom, fwTotal, n + 1),
           Deliver(c), UNCHANGED <<fwRom, fwTotal>>
    PROVE  \/ InStepNext(n + 1, Answers(c))
           \/ fwRan' = fwRan /\ Refused'
<1>0. fwRan \in Seq(Command) /\ fwWire = <<>> /\ Len(fwRan) = n
  BY DEF fwTypeOK, InStep
<1>1. CASE fwRan' = Append(fwRan, c) /\ fwWire' = fwWire \o Answers(c)
  <2>1. fwWire' = Answers(c)
    BY <1>0, <1>1, fwAnswersType, ConcatEmptySeq
  <2>2. /\ Len(fwRan') = n + 1 /\ fwRan'[n + 1] = c
        /\ \A i \in 1..n : fwRan'[i] = fwRan[i]
    BY <1>0, <1>1, AppendProperties
  <2>3. ASSUME NEW i \in 1 .. n + 1 PROVE fwRan'[i] = RecipeStep(fwRom, fwTotal, i)
    <3>1. CASE i \in 1..n
      BY <2>2, <3>1 DEF InStep
    <3>2. CASE i = n + 1
      BY <2>2, <3>2
    <3> QED
      BY <3>1, <3>2
  <2> QED
    BY <2>1, <2>2, <2>3 DEF InStepNext
<1>2. CASE fwWire' = Append(fwWire, "error") /\ UNCHANGED fwRan
  <2>1. fwWire' = <<"error">>
    BY <1>0, <1>2
  <2> QED
    BY <1>2, <2>1, fwTuples DEF Refused
<1> QED
  BY <1>1, <1>2 DEF Deliver

\* A refusal stays the next thing on the wire.
LEMMA fwRefusedStays ==
    ASSUME fwTypeOK, Refused, NEW c \in Command, Deliver(c) PROVE Refused'
<1>0. fwWire \in Seq(Answer) /\ fwWire # <<>> /\ Head(fwWire) = "error"
  BY DEF fwTypeOK, Refused
<1>1. ASSUME NEW r \in Seq(Answer), fwWire' = fwWire \o r PROVE Refused'
  <2>1. /\ fwWire \o r \in Seq(Answer) /\ Len(fwWire \o r) = Len(fwWire) + Len(r)
        /\ \A i \in 1 .. Len(fwWire) + Len(r) :
               (fwWire \o r)[i] = IF i <= Len(fwWire) THEN fwWire[i] ELSE r[i - Len(fwWire)]
    BY <1>0, ConcatProperties
  <2>2. Len(fwWire) \in Nat /\ Len(fwWire) > 0 /\ Len(r) \in Nat
    BY <1>0, EmptySeq, LenProperties
  <2>3. (fwWire \o r)[1] = fwWire[1]
    BY <2>1, <2>2
  <2>4. Len(fwWire \o r) > 0
    BY <2>1, <2>2
  <2>5. fwWire \o r # <<>> /\ Head(fwWire \o r) = Head(fwWire)
    BY <1>0, <2>1, <2>3, <2>4
  <2> QED
    BY <1>0, <1>1, <2>5 DEF Refused
<1>2. ASSUME fwWire' = Append(fwWire, "error") PROVE Refused'
  <2>1. "error" \in Answer
    BY DEF Answer
  <2>2. /\ Append(fwWire, "error") \in Seq(Answer)
        /\ Len(Append(fwWire, "error")) = Len(fwWire) + 1
        /\ \A i \in 1 .. Len(fwWire) : Append(fwWire, "error")[i] = fwWire[i]
    BY <1>0, <2>1, AppendProperties
  <2>3. Len(fwWire) \in Nat /\ Len(fwWire) > 0
    BY <1>0, EmptySeq, LenProperties
  <2>4. /\ Append(fwWire, "error") # <<>>
        /\ Head(Append(fwWire, "error")) = Head(fwWire)
    BY <1>0, <2>2, <2>3
  <2> QED
    BY <1>0, <1>2, <2>4 DEF Refused
<1> QED
  BY <1>1, <1>2, fwAnswersType DEF Deliver

\* An unconfirmed packet, run or refused, leaves the confirmed steps.
LEMMA fwFollowsStays ==
    ASSUME fwTypeOK, FollowsPhase, NEW c \in Command, c \in Unconfirmed, Deliver(c),
           UNCHANGED <<fwRom, fwPhase, fwTotal>>, fwPhase # "failed"
    PROVE  FollowsPhase'
<1>0. fwRan \in Seq(Command) /\ Confirmed \in Nat /\ Len(fwRan) \in Nat
  BY LenProperties DEF fwTypeOK, Confirmed, Phase
<1>c. Confirmed' = Confirmed /\ Unconfirmed' = Unconfirmed
  BY DEF Confirmed, Unconfirmed
<1>1. CASE UNCHANGED fwRan
  BY <1>1, <1>c DEF FollowsPhase, RecipeStep
<1>2. CASE fwRan' = Append(fwRan, c)
  <2>1. /\ Len(fwRan') = Len(fwRan) + 1 /\ fwRan'[Len(fwRan) + 1] = c
        /\ \A i \in 1 .. Len(fwRan) : fwRan'[i] = fwRan[i]
    BY <1>0, <1>2, AppendProperties
  <2>2. \A i \in 1..Confirmed : fwRan'[i] = RecipeStep(fwRom, fwTotal, i)
    BY <1>0, <2>1 DEF FollowsPhase
  <2>3. \A i \in Confirmed+1 .. Len(fwRan') : fwRan'[i] \in Unconfirmed
    BY <1>0, <2>1 DEF FollowsPhase
  <2>4. /\ Confirmed' <= Len(fwRan')
        /\ \A i \in 1..Confirmed' : fwRan'[i] = RecipeStep(fwRom, fwTotal, i)
        /\ \A i \in Confirmed'+1 .. Len(fwRan') : fwRan'[i] \in Unconfirmed'
    BY <1>0, <1>c, <2>1, <2>2, <2>3 DEF FollowsPhase
  <2> HIDE DEF Confirmed, Unconfirmed
  <2> QED
    BY <2>4 DEF FollowsPhase, RecipeStep
<1> QED
  BY <1>1, <1>2 DEF Deliver

-----------------------------------------------------------------------------
(* A transfer in each kind of call *)

\* What a transfer that does not fail leaves of an exchange.
ExchangeNext(answer, n) ==
    \/ fwTodo' = <<In(answer)>> /\ (InStepNext(n + 1, <<answer>>) \/ Refused')
    \/ fwTodo' = <<>> /\ InStepNext(n + 1, <<>>)

\* A command with one answer is sent.
LEMMA fwAsk ==
    ASSUME fwTypeOK, Send, NEW n \in Nat, InStep(n, <<>>), NEW c \in Command, NEW a, NEW rest,
           c = RecipeStep(fwRom, fwTotal, n + 1), Answers(c) = <<a>>,
           Head(fwTodo) = Out(c), Tail(fwTodo) = rest
    PROVE  fwTodo' = rest /\ (InStepNext(n + 1, <<a>>) \/ Refused')
<1>1. Deliver(c) /\ fwTodo' = rest /\ UNCHANGED <<fwRom, fwTotal>>
  BY fwOutOrIn DEF Send, TransferFrame
<1> QED
  BY <1>1, fwDeliver

\* The answer that is due is read, or the session fails.
LEMMA fwHear ==
    ASSUME fwTypeOK, Receive, NEW n \in Nat, NEW a \in Answer, a # "error",
           NEW rest, NEW w, Head(fwTodo) = In(a), Tail(fwTodo) = rest,
           \/ Refused
           \/ InStep(n, fwWire) /\ Head(fwWire) = a /\ Tail(fwWire) = w
    PROVE  Fail \/ (fwTodo' = rest /\ InStepNext(n, w))
<1>1. CASE Head(fwWire) # a
  BY <1>1, fwOutOrIn DEF Receive
<1>2. CASE Head(fwWire) = a
  <2>1. InStep(n, fwWire) /\ Tail(fwWire) = w
    BY <1>2 DEF Refused
  <2>2. fwTodo' = rest /\ fwWire' = w /\ UNCHANGED <<fwRan, fwRom, fwTotal>>
    BY <1>2, <2>1, fwOutOrIn DEF Receive, TransferFrame, fwSession
  <2> QED
    BY <2>1, <2>2 DEF InStep, InStepNext
<1> QED
  BY <1>1, <1>2

\* A transfer of an exchange.
LEMMA fwExchangeStep ==
    ASSUME fwTypeOK, Send \/ Receive, NEW n \in Nat, NEW c \in Command, NEW a \in Answer,
           Exchange(c, a, n), a # "error",
           c = RecipeStep(fwRom, fwTotal, n + 1), Answers(c) = <<a>>
    PROVE  Fail \/ ExchangeNext(a, n)
<1>t. fwTodo # <<>> /\ (Send => Head(fwTodo).out) /\ (Receive => ~Head(fwTodo).out)
  BY DEF Send, Receive
<1>1. CASE fwTodo = <<Out(c), In(a)>> /\ InStep(n, <<>>)
  <2>1. Head(fwTodo) = Out(c) /\ Tail(fwTodo) = <<In(a)>>
    BY <1>1, fwTuples
  <2>2. Send
    BY <1>t, <2>1, fwOutOrIn
  <2> QED
    BY <1>1, <2>1, <2>2, fwAsk DEF ExchangeNext
<1>2. CASE fwTodo = <<In(a)>> /\ (InStep(n + 1, <<a>>) \/ Refused)
  <2>1. Head(fwTodo) = In(a) /\ Tail(fwTodo) = <<>>
    BY <1>2, fwTuples
  <2>2. Receive
    BY <1>t, <2>1, fwOutOrIn
  <2>3. \/ Refused
        \/ InStep(n + 1, fwWire) /\ Head(fwWire) = a /\ Tail(fwWire) = <<>>
    BY <1>2, fwTuples DEF InStep
  <2>4. n + 1 \in Nat
    OBVIOUS
  <2>5. Fail \/ (fwTodo' = <<>> /\ InStepNext(n + 1, <<>>))
    BY <2>1, <2>2, <2>3, <2>4, fwHear
  <2> QED
    BY <2>5 DEF ExchangeNext
<1> QED
  BY <1>t, <1>1, <1>2 DEF Exchange

\* What a transfer that does not fail leaves of the configuration.
ConfiguringNext(n) ==
    \/ /\ fwTodo' = <<In("fill"), Out("configure"), In("configure")>>
       /\ InStepNext(n + 1, <<"fill">>) \/ Refused'
    \/ /\ fwTodo' = <<Out("configure"), In("configure")>>
       /\ InStepNext(n + 1, <<>>)
    \/ ExchangeNext("configure", n + 1)

\* A transfer of the configuration.
LEMMA fwConfiguringStep ==
    ASSUME fwTypeOK, Send \/ Receive, NEW n \in Nat, NEW c \in {"fillConfig", "fillFcb"},
           Configuring(c, n),
           c = RecipeStep(fwRom, fwTotal, n + 1),
           "configure" = RecipeStep(fwRom, fwTotal, n + 2)
    PROVE  Fail \/ ConfiguringNext(n)
<1>t. fwTodo # <<>> /\ (Send => Head(fwTodo).out) /\ (Receive => ~Head(fwTodo).out)
  BY DEF Send, Receive
<1>a. /\ c \in Command /\ "configure" \in Command
      /\ Answers(c) = <<"fill">> /\ Answers("configure") = <<"configure">>
      /\ "fill" \in Answer /\ "configure" \in Answer
  BY DEF Command, Answer, Answers
<1>n. n + 1 \in Nat /\ (n + 1) + 1 = n + 2
  OBVIOUS
<1>1. CASE /\ fwTodo = <<Out(c), In("fill"), Out("configure"), In("configure")>>
           /\ InStep(n, <<>>)
  <2>1. /\ Head(fwTodo) = Out(c)
        /\ Tail(fwTodo) = <<In("fill"), Out("configure"), In("configure")>>
    BY <1>1, fwTuples
  <2>2. Send
    BY <1>t, <2>1, fwOutOrIn
  <2> QED
    BY <1>1, <1>a, <2>1, <2>2, fwAsk DEF ConfiguringNext
<1>2. CASE /\ fwTodo = <<In("fill"), Out("configure"), In("configure")>>
           /\ InStep(n + 1, <<"fill">>) \/ Refused
  <2>1. /\ Head(fwTodo) = In("fill")
        /\ Tail(fwTodo) = <<Out("configure"), In("configure")>>
    BY <1>2, fwTuples
  <2>2. Receive
    BY <1>t, <2>1, fwOutOrIn
  <2>3. \/ Refused
        \/ InStep(n + 1, fwWire) /\ Head(fwWire) = "fill" /\ Tail(fwWire) = <<>>
    BY <1>2, fwTuples DEF InStep
  <2>4. \/ Fail
        \/ /\ fwTodo' = <<Out("configure"), In("configure")>>
           /\ InStepNext(n + 1, <<>>)
    BY <1>a, <1>n, <2>1, <2>2, <2>3, fwHear
  <2> QED
    BY <2>4 DEF ConfiguringNext
<1>3. CASE Exchange("configure", "configure", n + 1)
  <2>1. Fail \/ ExchangeNext("configure", n + 1)
    BY <1>3, <1>a, <1>n, fwExchangeStep
  <2> QED
    BY <2>1 DEF ConfiguringNext
<1> QED
  BY <1>1, <1>2, <1>3 DEF Configuring

\* The command of the download has no answer.
LEMMA fwDownloadingStep ==
    ASSUME fwTypeOK, Send \/ Receive, fwRom, Downloading
    PROVE  fwTodo' = <<>> /\ (InStepNext(1, <<>>) \/ (Refused' /\ fwRan' = <<>>))
<1>t. fwTodo # <<>> /\ (Send => Head(fwTodo).out) /\ (Receive => ~Head(fwTodo).out)
  BY DEF Send, Receive
<1>1. fwTodo = <<Out("download")>> /\ InStep(0, <<>>)
  BY <1>t DEF Downloading
<1>2. Head(fwTodo) = Out("download") /\ Tail(fwTodo) = <<>>
  BY <1>1, fwTuples
<1>3. Deliver("download") /\ fwTodo' = <<>> /\ UNCHANGED <<fwRom, fwTotal>>
  BY <1>t, <1>2, fwOutOrIn DEF Send, TransferFrame
<1>4. /\ "download" \in Command /\ Answers("download") = <<>>
      /\ "download" = RecipeStep(fwRom, fwTotal, 0 + 1)
  BY DEF Command, Answers, RecipeStep
<1>5. InStepNext(0 + 1, <<>>) \/ (fwRan' = fwRan /\ Refused')
  BY <1>1, <1>3, <1>4, fwDeliver
<1>6. fwRan = <<>>
  BY <1>1, EmptySeq DEF InStep, fwTypeOK
<1> QED
  BY <1>3, <1>5, <1>6

\* While packets are sent, the phase is followed.
LEMMA fwLoadingFollows ==
    ASSUME fwTypeOK, PhaseFits, fwPhase \in {"uploading", "writing"}, Loading,
           fwSent <= fwTotal
    PROVE  FollowsPhase
<1>1. CASE InStep(Base + fwSent, <<>>) /\ fwPhase = "uploading"
  <2>1. fwRom /\ Base = 1 /\ Confirmed = 0 /\ Unconfirmed = {"download", "data"}
    BY <1>1 DEF PhaseFits, Base, Confirmed, Unconfirmed
  <2>2. fwSent \in Nat /\ fwTotal \in Nat
    BY DEF fwTypeOK
  <2>3. \A i \in 1 .. 1 + fwSent : RecipeStep(fwRom, fwTotal, i) \in {"download", "data"}
    BY <2>1, <2>2 DEF RecipeStep
  <2>4. /\ Len(fwRan) = 1 + fwSent
        /\ \A i \in 1 .. 1 + fwSent : fwRan[i] = RecipeStep(fwRom, fwTotal, i)
    BY <1>1, <2>1 DEF InStep
  <2>5. \A i \in 1 .. Len(fwRan) : fwRan[i] \in {"download", "data"}
    BY <2>2, <2>3, <2>4
  <2>6. 0 <= Len(fwRan) /\ \A i \in 1..0 : fwRan[i] = RecipeStep(fwRom, fwTotal, i)
    BY <2>2, <2>4
  <2>7. Confirmed + 1 = 1
    BY <2>1
  <2> QED
    BY <2>1, <2>5, <2>6, <2>7 DEF FollowsPhase
<1>2. CASE InStep(Base + fwSent, <<>>) /\ fwPhase = "writing"
  <2>1. ~fwRom /\ Base = 7 /\ Confirmed = 7 /\ Unconfirmed = {"data"}
    BY <1>2 DEF PhaseFits, Base, Confirmed, Unconfirmed
  <2>2. fwSent \in Nat /\ fwTotal \in Nat
    BY DEF fwTypeOK
  <2>3. \A i \in 8 .. 7 + fwSent : RecipeStep(fwRom, fwTotal, i) = "data"
    BY <2>1, <2>2 DEF RecipeStep
  <2>4. /\ Len(fwRan) = 7 + fwSent
        /\ \A i \in 1 .. 7 + fwSent : fwRan[i] = RecipeStep(fwRom, fwTotal, i)
    BY <1>2, <2>1 DEF InStep
  <2>5. \A i \in 8 .. Len(fwRan) : fwRan[i] \in {"data"}
    BY <2>2, <2>3, <2>4
  <2>6. 7 <= Len(fwRan) /\ \A i \in 1..7 : fwRan[i] = RecipeStep(fwRom, fwTotal, i)
    BY <2>2, <2>4
  <2>7. Confirmed + 1 = 8
    BY <2>1
  <2> QED
    BY <2>1, <2>5, <2>6, <2>7 DEF FollowsPhase
<1> QED
  BY <1>1, <1>2 DEF Loading

\* A packet: more are to come, or it was the last.
LEMMA fwPacket ==
    ASSUME fwTypeOK, PhaseFits, fwPhase \in {"uploading", "writing"}, Loading,
           fwSent < fwTotal, Deliver("data"), fwSent' = fwSent + 1,
           UNCHANGED <<fwRom, fwPhase, fwTotal>>
    PROVE  /\ fwSent + 1 < fwTotal => Loading'
           /\ fwSent + 1 = fwTotal =>
                  \/ InStepNext(Base + fwTotal,
                                IF fwRom THEN <<"hab", "status">> ELSE <<"write">>)
                  \/ Refused'
<1>t. fwSent \in Nat /\ fwTotal \in Nat /\ Base \in Nat /\ fwPhase # "failed"
  BY DEF fwTypeOK, Base
<1>d. "data" \in Command /\ "data" \in Unconfirmed
  BY DEF Command, Unconfirmed
<1>f. FollowsPhase
  BY <1>t, fwLoadingFollows
<1>g. FollowsPhase'
  BY <1>t, <1>d, <1>f, fwFollowsStays
<1>1. CASE InStep(Base + fwSent, <<>>)
  <2>1. CountData = fwSent
    BY <1>1, <1>t, fwCount
  <2>2. Answers("data") = IF fwSent + 1 # fwTotal THEN <<>>
                          ELSE IF fwRom THEN <<"hab", "status">> ELSE <<"write">>
    BY <2>1 DEF Answers
  <2>3. "data" = RecipeStep(fwRom, fwTotal, Base + fwSent + 1)
    BY <1>t DEF RecipeStep, Base
  <2>4. Base + fwSent \in Nat /\ Base + fwSent + 1 = Base + (fwSent + 1)
    BY <1>t
  <2>5. InStepNext(Base + fwSent + 1, Answers("data")) \/ Refused'
    BY <1>1, <1>d, <2>3, <2>4, fwDeliver
  <2>6. ASSUME fwSent + 1 < fwTotal, InStepNext(Base + fwSent + 1, <<>>)
        PROVE  InStep(Base + fwSent, <<>>)'
    <3>1. Base' + fwSent' = Base + fwSent + 1
      BY <2>4 DEF Base
    <3> HIDE DEF Base
    <3> QED
      BY <2>6, <3>1 DEF InStep, InStepNext, RecipeStep
  <2>7. fwSent + 1 < fwTotal => Loading'
    BY <1>t, <1>g, <2>2, <2>5, <2>6 DEF Loading
  <2>8. fwSent + 1 = fwTotal =>
            \/ InStepNext(Base + fwTotal,
                          IF fwRom THEN <<"hab", "status">> ELSE <<"write">>)
            \/ Refused'
    BY <2>2, <2>4, <2>5
  <2> QED
    BY <2>7, <2>8
<1>2. CASE Refused
  <2>1. Refused'
    BY <1>2, <1>d, fwRefusedStays
  <2> QED
    BY <1>g, <2>1 DEF Loading
<1> QED
  BY <1>1, <1>2 DEF Loading

\* A transfer that does not fail changes only this.
LEMMA fwFrame ==
    ASSUME Send \/ Receive
    PROVE  \/ Fail
           \/ /\ UNCHANGED <<fwRom, fwPhase, fwTotal, fwThen, fwCaller>>
              /\ Receive => UNCHANGED fwSent
              /\ Send => fwSent' = fwSent + (IF Head(fwTodo).what = "data" THEN 1 ELSE 0)
  BY fwOutOrIn DEF Send, Receive, TransferFrame, fwSession

\* The answers that end an image are received one by one.
LEMMA fwReceiptStep ==
    ASSUME fwTypeOK, Send \/ Receive, ~Fail, fwThen = AfterData, fwSent = fwTotal,
           \/ /\ fwRom /\ fwTodo = <<In("hab"), In("status")>>
              /\ InStep(1 + fwTotal, <<"hab", "status">>) \/ Refused
           \/ /\ fwRom /\ fwTodo = <<In("status")>>
              /\ InStep(1 + fwTotal, <<"status">>) \/ Refused
           \/ /\ ~fwRom /\ fwTodo = <<In("write")>>
              /\ InStep(7 + fwTotal, <<"write">>) \/ Refused
    PROVE  Appending'
<1>t. fwTodo # <<>> /\ (Send => Head(fwTodo).out) /\ (Receive => ~Head(fwTodo).out)
  BY DEF Send, Receive
<1>n. fwTotal \in Nat /\ 1 + fwTotal \in Nat /\ 7 + fwTotal \in Nat
  BY DEF fwTypeOK
<1>a. "hab" \in Answer /\ "status" \in Answer /\ "write" \in Answer
  BY DEF Answer
<1>1. CASE /\ fwRom /\ fwTodo = <<In("hab"), In("status")>>
           /\ InStep(1 + fwTotal, <<"hab", "status">>) \/ Refused
  <2>1. Head(fwTodo) = In("hab") /\ Tail(fwTodo) = <<In("status")>>
    BY <1>1, fwTuples
  <2>2. Receive
    BY <1>t, <2>1, fwOutOrIn
  <2>3. \/ Refused
        \/ /\ InStep(1 + fwTotal, fwWire)
           /\ Head(fwWire) = "hab" /\ Tail(fwWire) = <<"status">>
    BY <1>1, fwTuples DEF InStep
  <2>4. fwTodo' = <<In("status")>> /\ InStepNext(1 + fwTotal, <<"status">>)
    BY <1>a, <1>n, <2>1, <2>2, <2>3, fwHear
  <2>5. UNCHANGED <<fwRom, fwPhase, fwTotal, fwThen, fwSent>>
    BY <2>2, fwFrame
  <2> QED
    BY <1>1, <2>4, <2>5 DEF Appending, AfterData, InStep, InStepNext
<1>2. CASE /\ fwRom /\ fwTodo = <<In("status")>>
           /\ InStep(1 + fwTotal, <<"status">>) \/ Refused
  <2>1. Head(fwTodo) = In("status") /\ Tail(fwTodo) = <<>>
    BY <1>2, fwTuples
  <2>2. Receive
    BY <1>t, <2>1, fwOutOrIn
  <2>3. \/ Refused
        \/ /\ InStep(1 + fwTotal, fwWire)
           /\ Head(fwWire) = "status" /\ Tail(fwWire) = <<>>
    BY <1>2, fwTuples DEF InStep
  <2>4. fwTodo' = <<>> /\ InStepNext(1 + fwTotal, <<>>)
    BY <1>a, <1>n, <2>1, <2>2, <2>3, fwHear
  <2>5. UNCHANGED <<fwRom, fwPhase, fwTotal, fwThen, fwSent>>
    BY <2>2, fwFrame
  <2> QED
    BY <1>2, <2>4, <2>5 DEF Appending, AfterData, InStep, InStepNext, Base
<1>3. CASE /\ ~fwRom /\ fwTodo = <<In("write")>>
           /\ InStep(7 + fwTotal, <<"write">>) \/ Refused
  <2>1. Head(fwTodo) = In("write") /\ Tail(fwTodo) = <<>>
    BY <1>3, fwTuples
  <2>2. Receive
    BY <1>t, <2>1, fwOutOrIn
  <2>3. \/ Refused
        \/ /\ InStep(7 + fwTotal, fwWire)
           /\ Head(fwWire) = "write" /\ Tail(fwWire) = <<>>
    BY <1>3, fwTuples DEF InStep
  <2>4. fwTodo' = <<>> /\ InStepNext(7 + fwTotal, <<>>)
    BY <1>a, <1>n, <2>1, <2>2, <2>3, fwHear
  <2>5. UNCHANGED <<fwRom, fwPhase, fwTotal, fwThen, fwSent>>
    BY <2>2, fwFrame
  <2> QED
    BY <1>3, <2>4, <2>5 DEF Appending, AfterData, InStep, InStepNext, Base
<1> QED
  BY <1>1, <1>2, <1>3

\* A packet of a call of append.
LEMMA fwPacketStep ==
    ASSUME fwTypeOK, PhaseFits, fwPhase \in {"uploading", "writing"}, Loading, Send, ~Fail,
           \/ /\ fwThen = fwPhase
              /\ \E k \in 0..MaxTotal : fwSent + k < fwTotal /\ fwTodo = Data(k)
           \/ /\ fwThen = AfterData
              /\ \E k \in 1..MaxTotal : fwSent + k = fwTotal /\ fwTodo = Data(k) \o Receipt
    PROVE  Appending'
<1>t. fwSent \in Nat /\ fwTotal \in Nat /\ fwTodo # <<>> /\ Send
  BY DEF Send, fwTypeOK
<1>r. /\ Receipt = (IF fwRom THEN <<In("hab"), In("status")>> ELSE <<In("write")>>)
      /\ Receipt \in Seq(Transfer)
  BY fwTransferTypes DEF Receipt
<1>1. CASE /\ fwThen = fwPhase
           /\ \E k \in 0..MaxTotal : fwSent + k < fwTotal /\ fwTodo = Data(k)
  <2>1. PICK k \in 0..MaxTotal : fwSent + k < fwTotal /\ fwTodo = Data(k)
    BY <1>1
  <2>2. k > 0 /\ k \in Nat
    BY <1>t, <2>1, fwData
  <2>3. Head(fwTodo) = Out("data") /\ Tail(fwTodo) = Data(k - 1)
    BY <2>1, <2>2, fwData
  <2>4. /\ Deliver("data") /\ fwTodo' = Data(k - 1) /\ fwSent' = fwSent + 1
        /\ UNCHANGED <<fwRom, fwPhase, fwTotal, fwThen>>
    BY <1>t, <2>3, fwOutOrIn DEF Send, TransferFrame
  <2>5. Loading'
    BY <1>t, <2>1, <2>2, <2>4, fwPacket
  <2>6. k - 1 \in 0..MaxTotal /\ fwSent' + (k - 1) < fwTotal'
    BY <1>t, <2>1, <2>2, <2>4
  <2>7. fwThen' = fwPhase'
    BY <1>1, <2>4
  <2> QED
    BY <2>4, <2>5, <2>6, <2>7 DEF Appending
<1>2. CASE /\ fwThen = AfterData
           /\ \E k \in 1..MaxTotal : fwSent + k = fwTotal /\ fwTodo = Data(k) \o Receipt
  <2>1. PICK k \in 1..MaxTotal : fwSent + k = fwTotal /\ fwTodo = Data(k) \o Receipt
    BY <1>2
  <2>2. k > 0 /\ k \in Nat
    BY <2>1
  <2>3. Head(fwTodo) = Out("data") /\ Tail(fwTodo) = Data(k - 1) \o Receipt
    BY <1>r, <2>1, <2>2, fwDataThen
  <2>4. /\ Deliver("data") /\ fwTodo' = Data(k - 1) \o Receipt /\ fwSent' = fwSent + 1
        /\ UNCHANGED <<fwRom, fwPhase, fwTotal, fwThen>>
    BY <1>t, <2>3, fwOutOrIn DEF Send, TransferFrame
  <2>5. Receipt' = Receipt /\ AfterData' = AfterData
    BY <2>4 DEF Receipt, AfterData
  <2>6. CASE k = 1
    <3>1. fwTodo' = Receipt /\ fwSent' = fwTotal'
      <4>1. k - 1 = 0 /\ fwSent' = fwTotal'
        BY <1>t, <2>1, <2>4, <2>6
      <4>2. fwTodo' = Data(0) \o Receipt
        BY <2>4, <4>1
      <4>3. Data(0) \o Receipt = Receipt
        BY <1>r, <2>2, fwDataThen
      <4> QED
        BY <4>1, <4>2, <4>3
    <3>2. \/ InStepNext(Base + fwTotal,
                        IF fwRom THEN <<"hab", "status">> ELSE <<"write">>)
          \/ Refused'
      BY <1>t, <2>1, <2>4, <2>6, fwPacket
    <3>3. CASE fwRom
      <4>1. InStepNext(1 + fwTotal, <<"hab", "status">>) \/ Refused'
        BY <3>2, <3>3 DEF Base
      <4>2. /\ fwRom' /\ fwTodo' = <<In("hab"), In("status")>>
            /\ fwThen' = AfterData' /\ fwSent' = fwTotal' /\ fwTotal' = fwTotal
        BY <1>2, <1>r, <2>4, <2>5, <3>1, <3>3
      <4> HIDE DEF AfterData
      <4> QED
        BY <4>1, <4>2 DEF Appending, InStep, InStepNext
    <3>4. CASE ~fwRom
      <4>1. InStepNext(7 + fwTotal, <<"write">>) \/ Refused'
        BY <3>2, <3>4 DEF Base
      <4>2. /\ ~fwRom' /\ fwTodo' = <<In("write")>>
            /\ fwThen' = AfterData' /\ fwSent' = fwTotal' /\ fwTotal' = fwTotal
        BY <1>2, <1>r, <2>4, <2>5, <3>1, <3>4
      <4> QED
        BY <4>1, <4>2 DEF Appending, InStep, InStepNext
    <3> QED
      BY <3>3, <3>4
  <2>7. CASE k > 1
    <3>1. Loading'
      BY <1>t, <2>1, <2>2, <2>4, <2>7, fwPacket
    <3>2. k - 1 \in 1..MaxTotal /\ fwSent' + (k - 1) = fwTotal'
      BY <1>t, <2>1, <2>4, <2>7
    <3>3. fwTodo' = Data(k - 1) \o Receipt' /\ fwThen' = AfterData'
      BY <1>2, <2>4, <2>5
    <3> QED
      BY <3>1, <3>2, <3>3 DEF Appending
  <2> QED
    BY <2>1, <2>6, <2>7
<1> QED
  BY <1>1, <1>2

\* A transfer of a call of append.
LEMMA fwAppendingStep ==
    ASSUME fwTypeOK, PhaseFits, fwPhase \in {"uploading", "writing"}, Appending,
           Send \/ Receive
    PROVE  Fail \/ Appending'
<1>t. fwTodo # <<>> /\ (Send => Head(fwTodo).out) /\ (Receive => ~Head(fwTodo).out)
  BY DEF Send, Receive
<1>r. Receipt \in Seq(Transfer)
  BY fwTransferTypes
<1>1. ASSUME NEW k \in 0..MaxTotal, fwTodo = Data(k)
      PROVE  Head(fwTodo) = Out("data")
  <2>1. k \in Nat /\ k > 0
    BY <1>1, <1>t, fwData
  <2> QED
    BY <1>1, <2>1, fwData
<1>2. ASSUME NEW k \in 1..MaxTotal, fwTodo = Data(k) \o Receipt
      PROVE  Head(fwTodo) = Out("data")
  <2>1. k \in Nat /\ k > 0
    OBVIOUS
  <2> QED
    BY <1>2, <1>r, <2>1, fwDataThen
<1>3. CASE /\ fwThen = fwPhase /\ Loading
           /\ \E k \in 0..MaxTotal : fwSent + k < fwTotal /\ fwTodo = Data(k)
  <2>1. Send
    BY <1>t, <1>1, <1>3, fwOutOrIn
  <2> QED
    BY <1>3, <2>1, fwPacketStep
<1>4. CASE /\ fwThen = AfterData /\ Loading
           /\ \E k \in 1..MaxTotal : fwSent + k = fwTotal /\ fwTodo = Data(k) \o Receipt
  <2>1. Send
    BY <1>t, <1>2, <1>4, fwOutOrIn
  <2> QED
    BY <1>4, <2>1, fwPacketStep
<1>5. CASE ~(\/ /\ fwThen = fwPhase /\ Loading
                /\ \E k \in 0..MaxTotal : fwSent + k < fwTotal /\ fwTodo = Data(k)
             \/ /\ fwThen = AfterData /\ Loading
                /\ \E k \in 1..MaxTotal : fwSent + k = fwTotal /\ fwTodo = Data(k) \o Receipt)
  BY <1>5, <1>t, fwReceiptStep DEF Appending
<1> QED
  BY <1>3, <1>4, <1>5

\* A transfer of any call: it fails, or the call is still in step.
LEMMA fwInCallStep ==
    ASSUME fwTypeOK, PhaseFits, InCall, Send \/ Receive
    PROVE  Fail \/ InCall'
<1> SUFFICES ASSUME ~Fail PROVE InCall'
  OBVIOUS
<1>t. fwTotal \in Nat
  BY DEF fwTypeOK
<1>f. UNCHANGED <<fwRom, fwPhase, fwTotal, fwThen>>
  BY fwFrame
<1>c. /\ {"jump", "property", "fillConfig", "fillFcb", "configure", "erase", "write",
          "reset"} \subseteq Command
      /\ {"hab", "property", "fill", "configure", "erase", "write", "reset"} \subseteq Answer
      /\ Answers("jump") = <<"hab">>
      /\ \A c \in {"property", "configure", "erase", "write", "reset"} : Answers(c) = <<c>>
  BY DEF Command, Answer, Answers
<1>1. CASE fwPhase = "ready" /\ fwRom /\ fwThen = "uploading" /\ Downloading
  <2>1. fwTodo' = <<>> /\ (InStepNext(1, <<>>) \/ (Refused' /\ fwRan' = <<>>))
    BY <1>1, fwDownloadingStep
  <2> QED
    BY <1>1, <1>f, <2>1 DEF InCall, Downloading, InStep, InStepNext
<1>2. CASE fwPhase \in {"uploading", "writing"} /\ Appending
  <2>1. Appending'
    BY <1>2, fwAppendingStep
  <2> QED
    BY <1>2, <1>f, <2>1 DEF InCall
<1>3. CASE fwPhase = "uploaded" /\ fwThen = "jumped" /\ Exchange("jump", "hab", 1 + fwTotal)
  <2>1. "jump" = RecipeStep(fwRom, fwTotal, 1 + fwTotal + 1) /\ 1 + fwTotal \in Nat
    BY <1>3, <1>t DEF RecipeStep, PhaseFits
  <2>2. ExchangeNext("hab", 1 + fwTotal)
    BY <1>3, <1>c, <2>1, fwExchangeStep
  <2> QED
    BY <1>3, <1>f, <2>2 DEF InCall, Exchange, ExchangeNext, InStep, InStepNext
<1>4. CASE /\ fwPhase = "ready" /\ ~fwRom /\ fwThen = "loaderReady"
           /\ Exchange("property", "property", 0)
  <2>1. "property" = RecipeStep(fwRom, fwTotal, 0 + 1)
    BY <1>4, <1>t DEF RecipeStep
  <2>2. ExchangeNext("property", 0)
    BY <1>4, <1>c, <2>1, fwExchangeStep
  <2> QED
    BY <1>4, <1>f, <2>2 DEF InCall, Exchange, ExchangeNext, InStep, InStepNext
<1>5. CASE /\ fwPhase = "loaderReady" /\ fwThen = "configured"
           /\ Configuring("fillConfig", 1)
  <2>1. /\ "fillConfig" = RecipeStep(fwRom, fwTotal, 1 + 1)
        /\ "configure" = RecipeStep(fwRom, fwTotal, 1 + 2)
    BY <1>5, <1>t DEF RecipeStep, PhaseFits
  <2>2. ConfiguringNext(1)
    BY <1>5, <2>1, fwConfiguringStep
  <2> QED
    BY <1>5, <1>f, <2>2 DEF InCall, Configuring, ConfiguringNext, Exchange, ExchangeNext,
                            InStep, InStepNext
<1>6. CASE fwPhase = "configured" /\ fwThen = "erased" /\ Exchange("erase", "erase", 3)
  <2>1. "erase" = RecipeStep(fwRom, fwTotal, 3 + 1)
    BY <1>6, <1>t DEF RecipeStep, PhaseFits
  <2>2. ExchangeNext("erase", 3)
    BY <1>6, <1>c, <2>1, fwExchangeStep
  <2> QED
    BY <1>6, <1>f, <2>2 DEF InCall, Exchange, ExchangeNext, InStep, InStepNext
<1>7. CASE fwPhase = "erased" /\ fwThen = "fcbCreated" /\ Configuring("fillFcb", 4)
  <2>1. /\ "fillFcb" = RecipeStep(fwRom, fwTotal, 4 + 1)
        /\ "configure" = RecipeStep(fwRom, fwTotal, 4 + 2)
    BY <1>7, <1>t DEF RecipeStep, PhaseFits
  <2>2. ConfiguringNext(4)
    BY <1>7, <2>1, fwConfiguringStep
  <2> QED
    BY <1>7, <1>f, <2>2 DEF InCall, Configuring, ConfiguringNext, Exchange, ExchangeNext,
                            InStep, InStepNext
<1>8. CASE fwPhase = "fcbCreated" /\ fwThen = "writing" /\ Exchange("write", "write", 6)
  <2>1. "write" = RecipeStep(fwRom, fwTotal, 6 + 1)
    BY <1>8, <1>t DEF RecipeStep, PhaseFits
  <2>2. ExchangeNext("write", 6)
    BY <1>8, <1>c, <2>1, fwExchangeStep
  <2> QED
    BY <1>8, <1>f, <2>2 DEF InCall, Exchange, ExchangeNext, InStep, InStepNext
<1>9. CASE fwPhase = "written" /\ fwThen = "reset" /\ Exchange("reset", "reset", 7 + fwTotal)
  <2>1. "reset" = RecipeStep(fwRom, fwTotal, 7 + fwTotal + 1) /\ 7 + fwTotal \in Nat
    BY <1>9, <1>t DEF RecipeStep, PhaseFits
  <2>2. ExchangeNext("reset", 7 + fwTotal)
    BY <1>9, <1>c, <2>1, fwExchangeStep
  <2> QED
    BY <1>9, <1>f, <2>2 DEF InCall, Exchange, ExchangeNext, InStep, InStepNext
<1> QED
  BY <1>1, <1>2, <1>3, <1>4, <1>5, <1>6, <1>7, <1>8, <1>9 DEF InCall

-----------------------------------------------------------------------------
(* Every step keeps the device in step *)

\* A failed session is over.
LEMMA fwFailSync == Fail => Synchronized'
  BY DEF Fail, Synchronized, Unlocked

\* Nothing of a call changes.
LEMMA fwSyncStays ==
    ASSUME Synchronized, UNCHANGED <<fwRom, fwSession, fwCall, fwDevice>>,
           fwPhase = "failed" => fwConnected' = fwConnected
    PROVE  Synchronized'
<1> USE DEF fwSession, fwCall, fwDevice
<1>1. Confirmed' = Confirmed /\ Unconfirmed' = Unconfirmed /\ Base' = Base
  BY DEF Confirmed, Unconfirmed, Base
<1>2. PhaseFits' = PhaseFits /\ Unlocked' = Unlocked
  BY DEF PhaseFits, Unlocked
<1>3. Loading' = Loading
  BY DEF Loading, InStep, Refused, FollowsPhase, RecipeStep, Confirmed, Unconfirmed, Base
<1>4. BetweenCalls => BetweenCalls'
  <2>1. InStep(Confirmed, <<>>) => InStep(Confirmed, <<>>)'
    <3> HIDE DEF Confirmed
    <3> QED
      BY <1>1 DEF InStep, RecipeStep
  <2> QED
    BY <1>3, <2>1 DEF BetweenCalls
<1>5. Appending => Appending'
  BY <1>3 DEF Appending, InStep, Refused, RecipeStep, Base, AfterData, Receipt
<1>6. InCall => InCall'
  <2>1. Downloading => Downloading'
    BY DEF Downloading, InStep, Refused, RecipeStep
  <2>2. /\ Exchange("jump", "hab", 1 + fwTotal) => Exchange("jump", "hab", 1 + fwTotal)'
        /\ Exchange("reset", "reset", 7 + fwTotal) => Exchange("reset", "reset", 7 + fwTotal)'
        /\ Exchange("property", "property", 0) => Exchange("property", "property", 0)'
        /\ Exchange("erase", "erase", 3) => Exchange("erase", "erase", 3)'
        /\ Exchange("write", "write", 6) => Exchange("write", "write", 6)'
    BY DEF Exchange, InStep, Refused, RecipeStep
  <2>3. /\ Configuring("fillConfig", 1) => Configuring("fillConfig", 1)'
        /\ Configuring("fillFcb", 4) => Configuring("fillFcb", 4)'
    BY DEF Configuring, Exchange, InStep, Refused, RecipeStep
  <2> QED
    BY <1>5, <2>1, <2>2, <2>3 DEF InCall
<1> QED
  BY <1>2, <1>4, <1>6 DEF Synchronized

\* Data and what follows it are empty only when there is nothing.
LEMMA fwNoPackets ==
    /\ \A k \in 0..MaxTotal : Data(k) = <<>> => k = 0
    /\ \A k \in 1..MaxTotal : Data(k) \o Receipt # <<>>
<1>1. Receipt \in Seq(Transfer)
  BY fwTransferTypes
<1>2. ASSUME NEW k \in 0..MaxTotal, Data(k) = <<>> PROVE k = 0
  BY <1>2, fwData
<1>3. ASSUME NEW k \in 1..MaxTotal PROVE Data(k) \o Receipt # <<>>
  BY <1>1, fwDataThen
<1> QED
  BY <1>2, <1>3

\* A packet is sent only while some of the image is left.
LEMMA fwDataIsDue ==
    ASSUME devInv, Send, Head(fwTodo).what = "data"
    PROVE  fwPhase \in {"uploading", "writing"} /\ fwSent < fwTotal
<1>1. fwTodo # <<>> /\ Head(fwTodo).out /\ fwTypeOK
  BY DEF Send, devInv
<1>2. InCall
  BY <1>1 DEF devInv, Synchronized, BetweenCalls
<1> USE <1>1, fwTuples, fwOutOrIn
<1>3. ~Downloading
  BY DEF Downloading
<1>4. ASSUME NEW c, NEW a, NEW n, Exchange(c, a, n), c # "data", a # "data"
      PROVE  FALSE
  BY <1>4 DEF Exchange
<1>5. ASSUME NEW c \in {"fillConfig", "fillFcb"}, NEW n, Configuring(c, n)
      PROVE  FALSE
  BY <1>4, <1>5 DEF Configuring
<1>6. fwPhase \in {"uploading", "writing"} /\ Appending
  BY <1>2, <1>3, <1>4, <1>5 DEF InCall
<1>7. fwSent \in Nat /\ fwTotal \in Nat
  BY DEF fwTypeOK
<1>8. fwSent < fwTotal
  BY <1>6, <1>7, fwNoPackets DEF Appending
<1> QED
  BY <1>6, <1>8

\* A transfer of a call, with the call under way.
LEMMA fwTransferSync == ASSUME devInv, Send \/ Receive PROVE Synchronized'
<1> SUFFICES ASSUME ~Fail PROVE Synchronized'
  BY fwFailSync
<1>1. fwTodo # <<>> /\ fwTypeOK
  BY DEF Send, Receive, devInv
<1>2. fwPhase # "failed" /\ ~Unlocked /\ PhaseFits /\ InCall
  BY <1>1 DEF devInv, Synchronized, BetweenCalls
<1>3. InCall'
  BY <1>1, <1>2, fwInCallStep
<1>4. UNCHANGED <<fwRom, fwPhase, fwTotal, fwThen, fwCaller>>
  BY fwFrame
<1>5. fwPhase \notin {"uploading", "writing"} => fwSent' = fwSent
  <2>1. ASSUME Send, fwPhase \notin {"uploading", "writing"}
        PROVE  Head(fwTodo).what # "data"
    BY <2>1, fwDataIsDue
  <2>2. fwSent \in Nat
    BY <1>1 DEF fwTypeOK
  <2>3. CASE Send
    <3>1. fwSent' = fwSent + (IF Head(fwTodo).what = "data" THEN 1 ELSE 0)
      BY <2>3, fwFrame
    <3> QED
      BY <2>1, <2>2, <2>3, <3>1
  <2>4. CASE Receive
    BY <2>4, fwFrame
  <2> QED
    BY <2>3, <2>4
<1>6. PhaseFits'
  BY <1>2, <1>4, <1>5 DEF PhaseFits, Unlocked
<1> QED
  BY <1>2, <1>3, <1>4, <1>6 DEF Synchronized, Unlocked

\* A call has done all its transfers: the phase it leads to is the device's.
LEMMA fwReturnsSync == ASSUME devInv, CallReturns PROVE Synchronized'
<1>1. /\ fwTodo = <<>> /\ fwTypeOK /\ ~Unlocked /\ fwPhase' = fwThen /\ fwCaller' = NoClient
      /\ UNCHANGED <<fwRom, fwTotal, fwSent, fwTodo, fwRan, fwWire>>
  BY DEF CallReturns, devInv, Unlocked, TransferFrame, fwDevice
<1>2. fwPhase # "failed" /\ PhaseFits /\ InCall /\ 0 < fwTotal
  BY <1>1 DEF devInv, Synchronized, PhaseFits
<1>t. fwTotal \in Nat /\ fwSent \in Nat
  BY <1>1 DEF fwTypeOK
<1>n. \A a, b, c, d : /\ <<a>> # <<>> /\ <<a, b>> # <<>> /\ <<a, b, c>> # <<>>
                      /\ <<a, b, c, d>> # <<>>
  BY fwTuples
<1>e. ASSUME NEW c, NEW a, NEW n, Exchange(c, a, n) PROVE InStep(n + 1, <<>>)
  BY <1>1, <1>n, <1>e DEF Exchange
<1>g. ASSUME NEW c, NEW n \in Nat, Configuring(c, n) PROVE InStep(n + 2, <<>>)
  <2>1. Exchange("configure", "configure", n + 1)
    BY <1>1, <1>n, <1>g DEF Configuring
  <2>2. InStep(n + 1 + 1, <<>>) /\ n + 1 + 1 = n + 2
    BY <1>e, <2>1
  <2> QED
    BY <2>2
<1>u. Unlocked'
  BY <1>1 DEF Unlocked
\* It is enough to know the phase and where the device is.
<1>s. ASSUME fwThen \notin {"failed", "uploading", "writing"}, PhaseFits',
             InStep(Confirmed', <<>>)
      PROVE  Synchronized'
  <2>1. BetweenCalls'
    <3>1. Len(fwRan') = Confirmed' /\ fwWire' = <<>>
          /\ \A i \in 1..Confirmed' : fwRan'[i] = RecipeStep(fwRom, fwTotal, i)
      BY <1>1, <1>s DEF InStep
    <3> HIDE DEF Confirmed
    <3> QED
      BY <1>1, <1>s, <3>1 DEF BetweenCalls, InStep, RecipeStep
  <2> QED
    BY <1>1, <1>s, <1>u, <2>1 DEF Synchronized
<1>3. CASE fwPhase = "ready" /\ fwRom /\ fwThen = "uploading" /\ Downloading
  <2>1. InStep(1, <<>>) \/ (Refused /\ fwRan = <<>>)
    BY <1>1, <1>3, <1>n DEF Downloading
  <2>2. fwSent = 0
    BY <1>2, <1>3 DEF PhaseFits
  <2>3. Loading'
    <3>1. CASE InStep(1, <<>>)
      BY <1>1, <1>3, <2>2, <3>1 DEF Loading, InStep, Base, RecipeStep
    <3>2. CASE Refused /\ fwRan = <<>>
      <4>1. Confirmed' = 0 /\ Len(fwRan') = 0
        BY <1>1, <1>3, <3>2 DEF Confirmed
      <4>2. FollowsPhase'
        <5> HIDE DEF Confirmed
        <5> QED
          BY <4>1 DEF FollowsPhase
      <4> QED
        BY <1>1, <3>2, <4>2 DEF Loading, Refused
    <3> QED
      BY <2>1, <3>1, <3>2
  <2>4. PhaseFits'
    BY <1>1, <1>2, <1>3 DEF PhaseFits
  <2>5. BetweenCalls'
    BY <1>1, <1>2, <1>3, <2>2, <2>3 DEF BetweenCalls
  <2> QED
    BY <1>1, <1>3, <1>u, <2>4, <2>5 DEF Synchronized
<1>4. CASE fwPhase \in {"uploading", "writing"} /\ Appending
  <2>1. CASE /\ fwThen = fwPhase /\ Loading
             /\ \E k \in 0..MaxTotal : fwSent + k < fwTotal /\ fwTodo = Data(k)
    <3>1. fwSent < fwTotal
      BY <1>1, <1>t, <2>1, fwNoPackets
    <3>2. fwPhase' = fwPhase
      BY <1>1, <2>1
    <3>3. Loading'
      BY <1>1, <2>1, <3>2 DEF Loading, InStep, Refused, FollowsPhase, RecipeStep, Confirmed,
                              Unconfirmed, Base
    <3>4. PhaseFits' /\ BetweenCalls'
      BY <1>1, <1>2, <1>4, <3>1, <3>2, <3>3 DEF PhaseFits, BetweenCalls
    <3> QED
      BY <1>2, <1>u, <3>2, <3>4 DEF Synchronized
  <2>2. CASE ~(/\ fwThen = fwPhase /\ Loading
               /\ \E k \in 0..MaxTotal : fwSent + k < fwTotal /\ fwTodo = Data(k))
    <3>1. /\ fwThen = AfterData /\ fwSent = fwTotal
          /\ InStep(Base + fwTotal, <<>>)
      BY <1>1, <1>4, <1>n, <2>2, fwNoPackets DEF Appending
    <3>2. PhaseFits' /\ Confirmed' = Base + fwTotal
      BY <1>1, <1>2, <1>4, <3>1 DEF PhaseFits, AfterData, Confirmed, Base
    <3>3. fwThen \notin {"failed", "uploading", "writing"}
      BY <3>1 DEF AfterData
    <3> HIDE DEF Confirmed, Base
    <3> QED
      BY <1>s, <3>1, <3>2, <3>3
  <2> QED
    BY <2>1, <2>2
<1>5. CASE fwPhase = "uploaded" /\ fwThen = "jumped" /\ Exchange("jump", "hab", 1 + fwTotal)
  <2>1. InStep(1 + fwTotal + 1, <<>>) /\ 1 + fwTotal + 1 = 2 + fwTotal
    BY <1>5, <1>e, <1>t
  <2>2. PhaseFits' /\ Confirmed' = 2 + fwTotal
    BY <1>1, <1>2, <1>5 DEF PhaseFits, Confirmed
  <2> QED
    BY <1>5, <1>s, <2>1, <2>2
<1>6. CASE /\ fwPhase = "ready" /\ ~fwRom /\ fwThen = "loaderReady"
           /\ Exchange("property", "property", 0)
  <2>1. InStep(0 + 1, <<>>)
    BY <1>6, <1>e
  <2>2. PhaseFits' /\ Confirmed' = 1
    BY <1>1, <1>2, <1>6 DEF PhaseFits, Confirmed
  <2> QED
    BY <1>6, <1>s, <2>1, <2>2
<1>7. CASE /\ fwPhase = "loaderReady" /\ fwThen = "configured"
           /\ Configuring("fillConfig", 1)
  <2>1. InStep(1 + 2, <<>>)
    BY <1>7, <1>g
  <2>2. PhaseFits' /\ Confirmed' = 3
    BY <1>1, <1>2, <1>7 DEF PhaseFits, Confirmed
  <2> QED
    BY <1>7, <1>s, <2>1, <2>2
<1>8. CASE fwPhase = "configured" /\ fwThen = "erased" /\ Exchange("erase", "erase", 3)
  <2>1. InStep(3 + 1, <<>>)
    BY <1>8, <1>e
  <2>2. PhaseFits' /\ Confirmed' = 4
    BY <1>1, <1>2, <1>8 DEF PhaseFits, Confirmed
  <2> QED
    BY <1>8, <1>s, <2>1, <2>2
<1>9. CASE fwPhase = "erased" /\ fwThen = "fcbCreated" /\ Configuring("fillFcb", 4)
  <2>1. InStep(4 + 2, <<>>)
    BY <1>9, <1>g
  <2>2. PhaseFits' /\ Confirmed' = 6
    BY <1>1, <1>2, <1>9 DEF PhaseFits, Confirmed
  <2> QED
    BY <1>9, <1>s, <2>1, <2>2
<1>10. CASE fwPhase = "fcbCreated" /\ fwThen = "writing" /\ Exchange("write", "write", 6)
  <2>1. InStep(6 + 1, <<>>)
    BY <1>10, <1>e
  <2>2. fwSent = 0 /\ ~fwRom
    BY <1>2, <1>10 DEF PhaseFits
  <2>3. Loading'
    BY <1>1, <1>10, <2>1, <2>2 DEF Loading, InStep, Base, RecipeStep
  <2>4. PhaseFits' /\ BetweenCalls'
    BY <1>1, <1>2, <1>10, <2>2, <2>3 DEF PhaseFits, BetweenCalls
  <2> QED
    BY <1>1, <1>10, <1>u, <2>4 DEF Synchronized
<1>11. CASE fwPhase = "written" /\ fwThen = "reset" /\ Exchange("reset", "reset", 7 + fwTotal)
  <2>1. InStep(7 + fwTotal + 1, <<>>) /\ 7 + fwTotal + 1 = 8 + fwTotal
    BY <1>11, <1>e, <1>t
  <2>2. PhaseFits' /\ Confirmed' = 8 + fwTotal
    BY <1>1, <1>2, <1>11 DEF PhaseFits, Confirmed
  <2> QED
    BY <1>11, <1>s, <2>1, <2>2
<1> QED
  BY <1>2, <1>3, <1>4, <1>5, <1>6, <1>7, <1>8, <1>9, <1>10, <1>11 DEF InCall

\* A call that fails at once, or what a call under way is.
LEMMA fwBegunSync ==
    ASSUME NEW c \in Client, fwCaller' = c, fwPhase # "failed", UNCHANGED fwPhase,
           PhaseFits', InCall'
    PROVE  Synchronized'
  BY SessionAssumption DEF Synchronized, Unlocked

\* A client that may call finds the device where the phase says.
LEMMA fwCallable ==
    ASSUME devInv, NEW c \in Client, Executes(c)
    PROVE  /\ fwTypeOK /\ fwPhase # "failed" /\ PhaseFits /\ BetweenCalls
           /\ fwTotal \in Nat /\ fwSent \in Nat
  BY DEF devInv, Synchronized, Executes, fwTypeOK

\* A session begins: nothing has been run.
LEMMA fwBeginSync ==
    ASSUME devInv, NEW c \in Client, NEW n \in 0..MaxTotal, Begin(c, n) PROVE Synchronized'
<1> SUFFICES ASSUME ~Fail PROVE Synchronized'
  BY fwFailSync
<1>1. /\ fwPhase # "failed" /\ PhaseFits /\ BetweenCalls
      /\ fwTotal \in Nat /\ fwSent \in Nat
  BY fwCallable DEF Begin
<1>2. /\ fwPhase = "ready" /\ n > 0 /\ fwTotal' = n /\ fwTodo' = BeginTransfers
      /\ fwThen' = (IF fwRom THEN "uploading" ELSE "loaderReady") /\ fwCaller' = c
      /\ UNCHANGED <<fwPhase, fwSent, fwConnected, fwRom, fwRan, fwWire>>
  BY DEF Begin, Transfers, CallFrame, fwDevice
<1>3. fwSent = 0 /\ Len(fwRan) = 0 /\ fwWire = <<>>
  BY <1>1, <1>2 DEF PhaseFits, BetweenCalls, InStep, Confirmed
<1>4. PhaseFits'
  BY <1>1, <1>2 DEF PhaseFits
<1>5. InStep(0, <<>>)'
  BY <1>2, <1>3 DEF InStep
<1>6. InCall'
  <2>1. CASE fwRom
    <3>1. fwTodo' = <<Out("download")>>
      BY <1>2, <2>1 DEF BeginTransfers
    <3> QED
      BY <1>2, <1>5, <2>1, <3>1 DEF InCall, Downloading
  <2>2. CASE ~fwRom
    <3>1. fwTodo' = <<Out("property"), In("property")>>
      BY <1>2, <2>2 DEF BeginTransfers, Fixed
    <3> QED
      BY <1>2, <1>5, <2>2, <3>1 DEF InCall, Exchange
  <2> QED
    BY <2>1, <2>2
<1> QED
  BY <1>1, <1>2, <1>4, <1>6, fwBegunSync

\* Packets are appended: they fit in the image.
LEMMA fwAppendSync ==
    ASSUME devInv, NEW c \in Client, NEW n \in 1..MaxTotal, AppendData(c, n)
    PROVE  Synchronized'
<1> SUFFICES ASSUME ~Fail PROVE Synchronized'
  BY fwFailSync
<1>1. /\ fwPhase # "failed" /\ PhaseFits /\ BetweenCalls
      /\ fwTotal \in Nat /\ fwSent \in Nat
  BY fwCallable DEF AppendData
<1>2. /\ fwPhase \in {"uploading", "writing"} /\ n <= fwTotal - fwSent /\ fwCaller' = c
      /\ UNCHANGED <<fwPhase, fwSent, fwTotal, fwConnected, fwRom, fwRan, fwWire>>
  BY DEF AppendData, Transfers, CallFrame, fwDevice
<1>3. \/ /\ fwSent + n = fwTotal /\ fwTodo' = Data(n) \o Receipt
         /\ fwThen' = (IF fwRom THEN "uploaded" ELSE "written")
      \/ fwSent + n # fwTotal /\ fwTodo' = Data(n) /\ fwThen' = fwPhase
  BY DEF AppendData, Transfers
<1>4. fwSent < fwTotal /\ Loading
  BY <1>1, <1>2 DEF BetweenCalls
<1>5. Loading'
  BY <1>2, <1>4 DEF Loading, InStep, Refused, FollowsPhase, RecipeStep, Confirmed,
                    Unconfirmed, Base
<1>6. PhaseFits'
  BY <1>1, <1>2, <1>4 DEF PhaseFits
<1>7. Appending'
  <2>1. CASE /\ fwSent + n = fwTotal /\ fwTodo' = Data(n) \o Receipt
             /\ fwThen' = (IF fwRom THEN "uploaded" ELSE "written")
    <3>1. Receipt' = Receipt /\ fwThen' = AfterData'
      BY <1>2, <2>1 DEF Receipt, AfterData
    <3>2. fwSent' + n = fwTotal' /\ fwTodo' = Data(n) \o Receipt'
      BY <1>2, <2>1, <3>1
    <3> QED
      BY <1>5, <3>1, <3>2 DEF Appending
  <2>2. CASE fwSent + n # fwTotal /\ fwTodo' = Data(n) /\ fwThen' = fwPhase
    <3>1. fwSent' + n < fwTotal' /\ n \in 0..MaxTotal /\ fwThen' = fwPhase'
      BY <1>1, <1>2, <2>2
    <3> QED
      BY <1>5, <2>2, <3>1 DEF Appending
  <2> QED
    BY <1>3, <2>1, <2>2
<1>8. InCall'
  BY <1>2, <1>7 DEF InCall
<1> QED
  BY <1>1, <1>2, <1>6, <1>8, fwBegunSync

\* The next steps of the recipe.
LEMMA fwAdvanceSync ==
    ASSUME devInv, NEW c \in Client, Advance(c) PROVE Synchronized'
<1> SUFFICES ASSUME ~Fail PROVE Synchronized'
  BY fwFailSync
<1>1. /\ fwPhase # "failed" /\ PhaseFits /\ BetweenCalls
      /\ fwTotal \in Nat /\ fwSent \in Nat
  BY fwCallable DEF Advance
<1>2. /\ fwPhase \in {"uploaded", "loaderReady", "configured", "erased", "fcbCreated",
                      "written"}
      /\ fwTodo' = AdvanceTransfers /\ fwThen' = PhaseAfterAdvance[fwPhase]
      /\ fwCaller' = c
      /\ UNCHANGED <<fwPhase, fwSent, fwTotal, fwConnected, fwRom, fwRan, fwWire>>
  BY DEF Advance, Transfers, CallFrame, fwDevice, PhaseAfterAdvance
<1>3. fwThen' = CASE fwPhase = "uploaded" -> "jumped"
                  [] fwPhase = "loaderReady" -> "configured"
                  [] fwPhase = "configured" -> "erased"
                  [] fwPhase = "erased" -> "fcbCreated"
                  [] fwPhase = "fcbCreated" -> "writing"
                  [] fwPhase = "written" -> "reset"
  BY <1>2 DEF PhaseAfterAdvance
<1>4. InStep(Confirmed, <<>>)
  BY <1>1, <1>2 DEF BetweenCalls
<1>5. PhaseFits'
  BY <1>1, <1>2 DEF PhaseFits
<1>i. \A n \in Nat : n = Confirmed =>
          /\ Len(fwRan') = n /\ fwWire' = <<>>
          /\ \A i \in 1..n : fwRan'[i] = RecipeStep(fwRom', fwTotal', i)
  <2> HIDE DEF Confirmed
  <2> QED
    BY <1>2, <1>4 DEF InStep
<1>6. InCall'
  <2>1. CASE fwPhase = "uploaded"
    <3>1. fwTodo' = <<Out("jump"), In("hab")>> /\ fwThen' = "jumped"
      BY <1>2, <1>3, <2>1 DEF AdvanceTransfers, Fixed
    <3>2. 1 + fwTotal \in Nat /\ 1 + fwTotal = Confirmed
      BY <1>1, <2>1 DEF Confirmed
    <3> QED
      BY <1>2, <1>i, <2>1, <3>1, <3>2 DEF InCall, Exchange, InStep
  <2>2. CASE fwPhase = "loaderReady"
    <3>1. /\ fwTodo' = <<Out("fillConfig"), In("fill"), Out("configure"), In("configure")>>
          /\ fwThen' = "configured"
      BY <1>2, <1>3, <2>2, fwTwoFixed DEF AdvanceTransfers
    <3>2. 1 = Confirmed
      BY <2>2 DEF Confirmed
    <3>3. InStep(1, <<>>)'
      <4>1. 1 \in Nat
        OBVIOUS
      <4> HIDE DEF Confirmed
      <4> QED
        BY <1>i, <3>2, <4>1 DEF InStep
    <3> QED
      BY <1>2, <2>2, <3>1, <3>3 DEF InCall, Configuring
  <2>3. CASE fwPhase = "configured"
    <3>1. fwTodo' = <<Out("erase"), In("erase")>> /\ fwThen' = "erased"
      BY <1>2, <1>3, <2>3 DEF AdvanceTransfers, Fixed
    <3>2. 3 = Confirmed
      BY <2>3 DEF Confirmed
    <3>3. InStep(3, <<>>)'
      <4>1. 3 \in Nat
        OBVIOUS
      <4> HIDE DEF Confirmed
      <4> QED
        BY <1>i, <3>2, <4>1 DEF InStep
    <3> QED
      BY <1>2, <2>3, <3>1, <3>3 DEF InCall, Exchange
  <2>4. CASE fwPhase = "erased"
    <3>1. /\ fwTodo' = <<Out("fillFcb"), In("fill"), Out("configure"), In("configure")>>
          /\ fwThen' = "fcbCreated"
      BY <1>2, <1>3, <2>4, fwTwoFixed DEF AdvanceTransfers
    <3>2. 4 = Confirmed
      BY <2>4 DEF Confirmed
    <3>3. InStep(4, <<>>)'
      <4>1. 4 \in Nat
        OBVIOUS
      <4> HIDE DEF Confirmed
      <4> QED
        BY <1>i, <3>2, <4>1 DEF InStep
    <3> QED
      BY <1>2, <2>4, <3>1, <3>3 DEF InCall, Configuring
  <2>5. CASE fwPhase = "fcbCreated"
    <3>1. fwTodo' = <<Out("write"), In("write")>> /\ fwThen' = "writing"
      BY <1>2, <1>3, <2>5 DEF AdvanceTransfers, Fixed
    <3>2. 6 = Confirmed
      BY <2>5 DEF Confirmed
    <3>3. InStep(6, <<>>)'
      <4>1. 6 \in Nat
        OBVIOUS
      <4> HIDE DEF Confirmed
      <4> QED
        BY <1>i, <3>2, <4>1 DEF InStep
    <3> QED
      BY <1>2, <2>5, <3>1, <3>3 DEF InCall, Exchange
  <2>6. CASE fwPhase = "written"
    <3>1. fwTodo' = <<Out("reset"), In("reset")>> /\ fwThen' = "reset"
      BY <1>2, <1>3, <2>6 DEF AdvanceTransfers, Fixed
    <3>2. 7 + fwTotal \in Nat /\ 7 + fwTotal = Confirmed
      BY <1>1, <2>6 DEF Confirmed
    <3> QED
      BY <1>2, <1>i, <2>6, <3>1, <3>2 DEF InCall, Exchange, InStep
  <2> QED
    BY <1>2, <2>1, <2>2, <2>3, <2>4, <2>5, <2>6
<1> QED
  BY <1>1, <1>2, <1>5, <1>6, fwBegunSync

\* Every step keeps the device in step.
LEMMA fwSyncStep == devInv /\ [fwNext]_fwVars => Synchronized'
<1> SUFFICES ASSUME devInv, [fwNext]_fwVars PROVE Synchronized'
  OBVIOUS
<1>s. Synchronized
  BY DEF devInv
<1>1. ASSUME NEW c \in Client, Handshake(c) PROVE Synchronized'
  BY <1>1, <1>s, fwSyncStays DEF Handshake
<1>2. ASSUME NEW c \in Client, ClientStop(c) PROVE Synchronized'
  BY <1>2, <1>s, fwFailSync, fwSyncStays DEF ClientStop
<1>3. ASSUME NEW c \in Client, NEW n \in 0..MaxTotal, Begin(c, n) PROVE Synchronized'
  BY <1>3, fwBeginSync
<1>4. ASSUME NEW c \in Client, NEW n \in 1..MaxTotal, AppendData(c, n) PROVE Synchronized'
  BY <1>4, fwAppendSync
<1>5. ASSUME NEW c \in Client, Advance(c) PROVE Synchronized'
  BY <1>5, fwAdvanceSync
<1>6. ASSUME NEW c \in Client, CancelSession(c) PROVE Synchronized'
  BY <1>6, fwFailSync DEF CancelSession
<1>7. CASE fwTransfer
  BY <1>7, fwTransferSync, fwReturnsSync, fwFailSync
     DEF fwTransfer, SendFails, ReceiveFails
<1>8. CASE Unplug \/ DriverStop
  BY <1>8, <1>s, fwSyncStays DEF Unplug, DriverStop
<1>9. CASE DriverDisconnect
  BY <1>9, fwFailSync DEF DriverDisconnect
<1>10. CASE UNCHANGED fwVars
  BY <1>10, <1>s, fwSyncStays DEF fwVars
<1> QED
  BY <1>1, <1>2, <1>3, <1>4, <1>5, <1>6, <1>7, <1>8, <1>9, <1>10 DEF fwNext

-----------------------------------------------------------------------------
(* The types *)

\* A command leaves the commands and the answers typed.
LEMMA fwDeliverType ==
    ASSUME fwTypeOK, NEW c \in Command, Deliver(c)
    PROVE  fwRan' \in Seq(Command) /\ fwWire' \in Seq(Answer)
<1>1. fwRan \in Seq(Command) /\ fwWire \in Seq(Answer) /\ "error" \in Answer
  BY DEF fwTypeOK, Answer
<1>2. /\ Append(fwRan, c) \in Seq(Command) /\ Append(fwWire, "error") \in Seq(Answer)
      /\ fwWire \o Answers(c) \in Seq(Answer)
  BY <1>1, fwAnswersType, AppendProperties, ConcatProperties
<1> QED
  BY <1>1, <1>2 DEF Deliver

\* The head of what is to do is a command or an answer.
LEMMA fwHeadType ==
    ASSUME fwTypeOK, fwTodo # <<>>
    PROVE  /\ Tail(fwTodo) \in Seq(Transfer)
           /\ Head(fwTodo).out => Head(fwTodo).what \in Command
<1>1. fwTodo \in Seq(Transfer)
  BY DEF fwTypeOK, Transfer
<1>2. Head(fwTodo) \in Transfer /\ Tail(fwTodo) \in Seq(Transfer)
  BY <1>1, HeadTailProperties
<1>3. ASSUME NEW x \in Transfer, x.out PROVE x.what \in Command
  <2>1. CASE x \in [out : {TRUE}, what : Command]
    BY <2>1, Zenon
  <2>2. CASE x \in [out : {FALSE}, what : Answer]
    <3>1. x.out \in {FALSE}
      BY <2>2, Zenon
    <3> QED
      BY <1>3, <3>1
  <2> QED
    BY <2>1, <2>2 DEF Transfer
<1> QED
  BY <1>2, <1>3

\* A failure is typed.
LEMMA fwFailType ==
    ASSUME fwTypeOK, Fail, UNCHANGED <<fwRom, fwPlugged>>,
           fwStop' \in {"no", "stopped", "closed"},
           fwOpen' \subseteq Client, fwHas' \subseteq Client,
           fwRan' \in Seq(Command), fwWire' \in Seq(Answer)
    PROVE  fwTypeOK'
<1>1. /\ fwPhase' = "failed" /\ fwConnected' = FALSE /\ fwCaller' = NoClient /\ fwTodo' = <<>>
      /\ UNCHANGED <<fwTotal, fwSent, fwThen>>
  BY DEF Fail
<1>2. "failed" \in Phase
  BY DEF Phase
<1>3. fwTodo' \in Seq([out : {TRUE}, what : Command] \cup [out : {FALSE}, what : Answer])
  BY <1>1
<1>4. fwConnected' \in BOOLEAN /\ fwCaller' \in Client \cup {NoClient}
  BY <1>1
<1> QED
  BY <1>1, <1>2, <1>3, <1>4 DEF fwTypeOK

\* A call that takes the lock is typed.
LEMMA fwCallType ==
    ASSUME fwTypeOK, NEW c \in Client, fwCaller' = c, fwTodo' \in Seq(Transfer),
           fwThen' \in Phase, fwTotal' \in 0..MaxTotal,
           UNCHANGED <<fwPhase, fwSent, fwConnected>>, CallFrame
    PROVE  fwTypeOK'
<1>1. UNCHANGED <<fwRom, fwStop, fwOpen, fwHas, fwPlugged, fwRan, fwWire>>
  BY DEF CallFrame, fwClients, fwDevice
<1> QED
  BY <1>1 DEF fwTypeOK, Transfer

\* Every step keeps the types.
LEMMA fwTypeStep == devInv /\ [fwNext]_fwVars => fwTypeOK'
<1> SUFFICES ASSUME devInv, [fwNext]_fwVars PROVE fwTypeOK'
  OBVIOUS
<1>t. fwTypeOK
  BY DEF devInv
<1>p. Phase = {"ready", "uploading", "uploaded", "jumped", "loaderReady", "configured",
               "erased", "fcbCreated", "writing", "written", "reset", "failed"}
  BY DEF Phase
<1>u. fwRan \in Seq(Command) /\ fwWire \in Seq(Answer)
      /\ fwStop \in {"no", "stopped", "closed"} /\ fwOpen \subseteq Client
      /\ fwHas \subseteq Client
  BY <1>t DEF fwTypeOK
<1>1. ASSUME NEW c \in Client, Handshake(c) PROVE fwTypeOK'
  BY <1>t, <1>1 DEF Handshake, fwTypeOK, fwSession, fwCall, fwDevice
<1>2. ASSUME NEW c \in Client, ClientStop(c) PROVE fwTypeOK'
  <2>1. CASE c \in fwHas
    <3>1. /\ Fail /\ fwOpen' \subseteq Client /\ fwHas' \subseteq Client
          /\ UNCHANGED <<fwRom, fwStop, fwPlugged, fwRan, fwWire>>
      BY <1>2, <1>u, <2>1 DEF ClientStop, fwDevice
    <3> QED
      BY <1>t, <1>u, <3>1, fwFailType
  <2>2. CASE c \notin fwHas
    BY <1>t, <1>2, <2>2 DEF ClientStop, fwTypeOK, fwSession, fwCall, fwDevice
  <2> QED
    BY <2>1, <2>2
<1>f. ASSUME Fail, CallFrame PROVE fwTypeOK'
  BY <1>t, <1>u, <1>f, fwFailType DEF CallFrame, fwClients, fwDevice
<1>3. ASSUME NEW c \in Client, NEW n \in 0..MaxTotal, Begin(c, n) PROVE fwTypeOK'
  <2>1. CASE Fail
    BY <1>3, <1>f, <2>1 DEF Begin
  <2>2. CASE ~Fail
    <3>1. /\ fwCaller' = c /\ fwTodo' \in Seq(Transfer) /\ fwTotal' \in 0..MaxTotal
          /\ fwThen' \in {"uploading", "loaderReady"}
          /\ UNCHANGED <<fwPhase, fwSent, fwConnected>> /\ CallFrame
      BY <1>3, <2>2, fwTransferTypes DEF Begin, Transfers
    <3> QED
      BY <1>t, <1>p, <3>1, fwCallType
  <2> QED
    BY <2>1, <2>2
<1>4. ASSUME NEW c \in Client, NEW n \in 1..MaxTotal, AppendData(c, n) PROVE fwTypeOK'
  <2>1. CASE Fail
    BY <1>4, <1>f, <2>1 DEF AppendData
  <2>2. CASE ~Fail
    <3>1. /\ fwCaller' = c /\ fwTotal' = fwTotal
          /\ fwTodo' = Data(n) \/ fwTodo' = Data(n) \o Receipt
          /\ fwThen' \in {"uploaded", "written", fwPhase}
          /\ UNCHANGED <<fwPhase, fwSent, fwConnected>> /\ CallFrame
      BY <1>4, <2>2 DEF AppendData, Transfers
    <3>2. fwTodo' \in Seq(Transfer)
      <4>1. n \in Nat
        OBVIOUS
      <4>2. Data(n) \in Seq(Transfer) /\ Data(n) \o Receipt \in Seq(Transfer)
        BY <4>1, fwTransferTypes
      <4> QED
        BY <3>1, <4>2
    <3>3. fwThen' \in Phase /\ fwTotal' \in 0..MaxTotal
      BY <1>t, <1>p, <3>1 DEF fwTypeOK
    <3> QED
      BY <1>t, <3>1, <3>2, <3>3, fwCallType
  <2> QED
    BY <2>1, <2>2
<1>5. ASSUME NEW c \in Client, Advance(c) PROVE fwTypeOK'
  <2>1. CASE Fail
    BY <1>5, <1>f, <2>1 DEF Advance
  <2>2. CASE ~Fail
    <3>1. /\ fwCaller' = c /\ fwTotal' = fwTotal /\ fwTodo' = AdvanceTransfers
          /\ fwPhase \in DOMAIN PhaseAfterAdvance /\ fwThen' = PhaseAfterAdvance[fwPhase]
          /\ UNCHANGED <<fwPhase, fwSent, fwConnected>> /\ CallFrame
      BY <1>5, <2>2 DEF Advance, Transfers
    <3>2. fwThen' \in Phase
      BY <1>p, <3>1 DEF PhaseAfterAdvance
    <3>3. fwTodo' \in Seq(Transfer) /\ fwTotal' \in 0..MaxTotal
      BY <1>t, <3>1, fwTransferTypes DEF fwTypeOK
    <3> QED
      BY <1>t, <3>1, <3>2, <3>3, fwCallType
  <2> QED
    BY <2>1, <2>2
<1>6. ASSUME NEW c \in Client, CancelSession(c) PROVE fwTypeOK'
  BY <1>6, <1>f DEF CancelSession
<1>7. CASE Send
  <2>1. /\ fwTodo # <<>> /\ Head(fwTodo).out /\ fwTodo' = Tail(fwTodo)
        /\ Deliver(Head(fwTodo).what)
        /\ fwSent' = fwSent + (IF Head(fwTodo).what = "data" THEN 1 ELSE 0)
        /\ UNCHANGED <<fwRom, fwStop, fwOpen, fwHas, fwPlugged, fwPhase, fwTotal,
                       fwConnected, fwCaller, fwThen>>
    BY <1>7 DEF Send, TransferFrame, fwClients
  <2>2. fwTodo' \in Seq(Transfer) /\ Head(fwTodo).what \in Command
    BY <1>t, <2>1, fwHeadType
  <2>3. fwRan' \in Seq(Command) /\ fwWire' \in Seq(Answer)
    BY <1>t, <2>1, <2>2, fwDeliverType
  <2>4. fwSent' \in 0..MaxTotal
    <3>1. CASE Head(fwTodo).what # "data"
      BY <1>t, <2>1, <3>1 DEF fwTypeOK
    <3>2. CASE Head(fwTodo).what = "data"
      <4>1. fwSent < fwTotal
        BY <1>t, <1>7, <3>2, fwDataIsDue
      <4> QED
        BY <1>t, <2>1, <3>2, <4>1 DEF fwTypeOK
    <3> QED
      BY <3>1, <3>2
  <2> QED
    BY <1>t, <2>1, <2>2, <2>3, <2>4 DEF fwTypeOK, Transfer
<1>8. CASE SendFails
  <2>1. /\ fwTodo # <<>> /\ Head(fwTodo).out /\ Fail
        /\ Deliver(Head(fwTodo).what) \/ UNCHANGED <<fwRan, fwWire>>
        /\ UNCHANGED <<fwRom, fwStop, fwOpen, fwHas, fwPlugged>>
    BY <1>8 DEF SendFails, TransferFrame, fwClients, fwDevice
  <2>2. Head(fwTodo).what \in Command
    BY <1>t, <2>1, fwHeadType
  <2>3. fwRan' \in Seq(Command) /\ fwWire' \in Seq(Answer)
    BY <1>t, <1>u, <2>1, <2>2, fwDeliverType
  <2> QED
    BY <1>t, <1>u, <2>1, <2>3, fwFailType
<1>9. CASE Receive
  <2>1. /\ fwTodo # <<>> /\ fwWire # <<>> /\ fwWire' = Tail(fwWire)
        /\ UNCHANGED <<fwRom, fwStop, fwOpen, fwHas, fwPlugged, fwRan>>
        /\ \/ Fail
           \/ /\ fwTodo' = Tail(fwTodo)
              /\ UNCHANGED <<fwPhase, fwTotal, fwSent, fwConnected, fwCaller, fwThen>>
    BY <1>9 DEF Receive, TransferFrame, fwClients, fwSession
  <2>2. fwWire' \in Seq(Answer) /\ Tail(fwTodo) \in Seq(Transfer)
    BY <1>t, <1>u, <2>1, fwHeadType, HeadTailProperties
  <2>3. CASE Fail
    BY <1>t, <1>u, <2>1, <2>2, <2>3, fwFailType
  <2>4. CASE ~Fail
    BY <1>t, <2>1, <2>2, <2>4 DEF fwTypeOK, Transfer
  <2> QED
    BY <2>3, <2>4
<1>10. CASE ReceiveFails
  BY <1>t, <1>u, <1>10, fwFailType DEF ReceiveFails, TransferFrame, fwClients, fwDevice
<1>11. CASE CallReturns
  BY <1>t, <1>11 DEF CallReturns, TransferFrame, fwClients, fwDevice, fwTypeOK
<1>12. CASE Unplug \/ DriverStop
  BY <1>t, <1>12 DEF Unplug, DriverStop, fwSession, fwClients, fwCall, fwDevice, fwTypeOK
<1>13. CASE DriverDisconnect
  BY <1>t, <1>u, <1>13, fwFailType DEF DriverDisconnect, fwClients, fwDevice
<1>14. CASE UNCHANGED fwVars
  BY <1>t, <1>14 DEF fwVars, fwSession, fwClients, fwCall, fwDevice, fwTypeOK
<1> QED
  BY <1>1, <1>2, <1>3, <1>4, <1>5, <1>6, <1>7, <1>8, <1>9, <1>10, <1>11, <1>12, <1>13, <1>14
     DEF fwNext, fwTransfer

-----------------------------------------------------------------------------
\* The first state: nothing has been sent.
LEMMA devInitInv == fwInit => devInv
<1> SUFFICES ASSUME fwInit PROVE devInv
  OBVIOUS
<1>1. fwTypeOK
  <2>1. /\ fwTodo \in Seq([out : {TRUE}, what : Command] \cup [out : {FALSE}, what : Answer])
        /\ fwRan \in Seq(Command) /\ fwWire \in Seq(Answer)
    BY DEF fwInit
  <2>2. fwTotal \in 0..MaxTotal /\ fwSent \in 0..MaxTotal
    BY DEF fwInit
  <2> QED
    BY <2>1, <2>2 DEF fwInit, fwTypeOK, Phase
<1>2. Synchronized
  <2>1. Confirmed = 0 /\ Len(fwRan) = 0 /\ fwWire = <<>>
    BY DEF fwInit, Confirmed
  <2>2. BetweenCalls
    <3>1. InStep(Confirmed, <<>>)
      <4> HIDE DEF Confirmed
      <4> QED
        BY <2>1 DEF InStep
    <3> QED
      BY <3>1 DEF fwInit, BetweenCalls
  <2> QED
    BY <2>2 DEF fwInit, Synchronized, PhaseFits, Unlocked
<1> QED
  BY <1>1, <1>2, fwInitInv DEF devInv

\* The device is always in step.
LEMMA devInvariant == fwSpec => []devInv
<1>1. devInv /\ [fwNext]_fwVars => devInv'
  BY fwTypeStep, fwSyncStep, fwStep DEF devInv
<1> QED
  BY <1>1, devInitInv, PTL DEF fwSpec

\* The recipe, step by step.
LEMMA fwRecipe ==
    ASSUME fwTypeOK
    PROVE  /\ Recipe \in Seq(Command)
           /\ Len(Recipe) = (IF fwRom THEN 2 ELSE 8) + fwTotal
           /\ \A i \in 1 .. Len(Recipe) : Recipe[i] = RecipeStep(fwRom, fwTotal, i)
<1>t. fwTotal \in Nat
  BY DEF fwTypeOK
<1> DEFINE d == [i \in 1..fwTotal |-> "data"]
<1>c. Command = {"download", "data", "jump", "property", "fillConfig", "fillFcb", "configure",
                 "erase", "write", "reset"}
  BY DEF Command
<1>d. d \in Seq(Command) /\ Len(d) = fwTotal /\ \A i \in 1..fwTotal : d[i] = "data"
  BY <1>t, <1>c
<1> HIDE DEF d
<1>o. ASSUME NEW s \in Seq(Command), NEW t \in Seq(Command)
      PROVE  /\ s \o t \in Seq(Command) /\ Len(s \o t) = Len(s) + Len(t)
             /\ \A i \in 1 .. Len(s) + Len(t) :
                    (s \o t)[i] = IF i <= Len(s) THEN s[i] ELSE t[i - Len(s)]
  BY ConcatProperties
<1>1. CASE fwRom
  <2>1. /\ <<"download">> \in Seq(Command) /\ Len(<<"download">>) = 1
        /\ <<"download">>[1] = "download"
        /\ <<"jump">> \in Seq(Command) /\ Len(<<"jump">>) = 1 /\ <<"jump">>[1] = "jump"
    BY <1>c
  <2>2. /\ <<"download">> \o d \in Seq(Command) /\ Len(<<"download">> \o d) = 1 + fwTotal
        /\ \A i \in 1 .. 1 + fwTotal :
               (<<"download">> \o d)[i] = IF i <= 1 THEN <<"download">>[i] ELSE d[i - 1]
    BY <1>d, <1>o, <2>1
  <2>3. Recipe = (<<"download">> \o d) \o <<"jump">>
    BY <1>1 DEF Recipe, d
  <2>4. /\ Recipe \in Seq(Command) /\ Len(Recipe) = 1 + fwTotal + 1
        /\ \A i \in 1 .. 1 + fwTotal + 1 :
               Recipe[i] = IF i <= 1 + fwTotal THEN (<<"download">> \o d)[i]
                           ELSE <<"jump">>[i - (1 + fwTotal)]
    BY <1>o, <2>1, <2>2, <2>3
  <2>5. ASSUME NEW i \in 1 .. Len(Recipe) PROVE Recipe[i] = RecipeStep(fwRom, fwTotal, i)
    <3>1. CASE i = 1
      <4>1. i <= 1 /\ i <= 1 + fwTotal /\ i \in 1 .. 1 + fwTotal
            /\ i \in 1 .. 1 + fwTotal + 1
        BY <1>t, <3>1
      <4>2. Recipe[i] = (<<"download">> \o d)[i]
        BY <2>4, <4>1
      <4>3. (<<"download">> \o d)[i] = <<"download">>[i]
        BY <2>2, <4>1
      <4> QED
        BY <1>1, <2>1, <3>1, <4>2, <4>3 DEF RecipeStep
    <3>2. CASE i \in 2 .. 1 + fwTotal
      <4>1. i - 1 \in 1..fwTotal /\ i \in 1 .. 1 + fwTotal /\ ~(i <= 1)
        BY <1>t, <3>2
      <4>2. Recipe[i] = d[i - 1]
        BY <1>t, <2>2, <2>4, <4>1
      <4> QED
        BY <1>1, <1>t, <1>d, <3>2, <4>1, <4>2 DEF RecipeStep
    <3>3. CASE i = 2 + fwTotal
      <4>1. i - (1 + fwTotal) = 1 /\ ~(i <= 1 + fwTotal) /\ i \in 1 .. 1 + fwTotal + 1
        BY <1>t, <3>3
      <4>2. Recipe[i] = "jump"
        BY <2>1, <2>4, <4>1
      <4> QED
        BY <1>1, <1>t, <3>3, <4>2 DEF RecipeStep
    <3> QED
      BY <1>t, <2>4, <3>1, <3>2, <3>3
  <2>6. Len(Recipe) = (IF fwRom THEN 2 ELSE 8) + fwTotal
    BY <1>1, <1>t, <2>4
  <2> QED
    BY <2>4, <2>5, <2>6
<1>2. CASE ~fwRom
  <2> DEFINE p == <<"property", "fillConfig", "configure", "erase", "fillFcb", "configure",
                    "write">>
  <2>1. /\ p \in Seq(Command) /\ Len(p) = 7
        /\ p[1] = "property" /\ p[2] = "fillConfig" /\ p[3] = "configure" /\ p[4] = "erase"
        /\ p[5] = "fillFcb" /\ p[6] = "configure" /\ p[7] = "write"
        /\ <<"reset">> \in Seq(Command) /\ Len(<<"reset">>) = 1 /\ <<"reset">>[1] = "reset"
    BY <1>c
  <2>3. Recipe = (p \o d) \o <<"reset">>
    BY <1>2 DEF Recipe, d
  <2> HIDE DEF p
  <2>2. /\ p \o d \in Seq(Command) /\ Len(p \o d) = 7 + fwTotal
        /\ \A i \in 1 .. 7 + fwTotal : (p \o d)[i] = IF i <= 7 THEN p[i] ELSE d[i - 7]
    <3>1. /\ p \o d \in Seq(Command) /\ Len(p \o d) = Len(p) + Len(d)
          /\ \A i \in 1 .. Len(p) + Len(d) :
                 (p \o d)[i] = IF i <= Len(p) THEN p[i] ELSE d[i - Len(p)]
      BY <1>d, <1>o, <2>1
    <3> QED
      BY <1>d, <2>1, <3>1
  <2>4. /\ Recipe \in Seq(Command) /\ Len(Recipe) = 7 + fwTotal + 1
        /\ \A i \in 1 .. 7 + fwTotal + 1 :
               Recipe[i] = IF i <= 7 + fwTotal THEN (p \o d)[i]
                           ELSE <<"reset">>[i - (7 + fwTotal)]
    BY <1>o, <2>1, <2>2, <2>3
  <2>5. ASSUME NEW i \in 1 .. Len(Recipe) PROVE Recipe[i] = RecipeStep(fwRom, fwTotal, i)
    <3>1. CASE i \in 1..7
      <4>1. i <= 7 /\ i <= 7 + fwTotal /\ i \in 1 .. 7 + fwTotal
        BY <1>t, <3>1
      <4>2. Recipe[i] = p[i]
        <5>1. i \in 1 .. 7 + fwTotal + 1
          BY <1>t, <3>1
        <5>2. Recipe[i] = (p \o d)[i]
          BY <2>4, <4>1, <5>1
        <5>3. (p \o d)[i] = p[i]
          BY <2>2, <4>1
        <5> QED
          BY <5>2, <5>3
      <4>3. p[i] = RecipeStep(fwRom, fwTotal, i)
        BY <1>2, <1>t, <2>1, <3>1 DEF RecipeStep
      <4> QED
        BY <4>2, <4>3
    <3>2. CASE i \in 8 .. 7 + fwTotal
      <4>1. i - 7 \in 1..fwTotal /\ i \in 1 .. 7 + fwTotal /\ ~(i <= 7)
        BY <1>t, <3>2
      <4>2. Recipe[i] = d[i - 7]
        <5>1. i \in 1 .. 7 + fwTotal + 1 /\ i <= 7 + fwTotal
          BY <1>t, <3>2
        <5>2. Recipe[i] = (p \o d)[i]
          BY <2>4, <5>1
        <5>3. (p \o d)[i] = d[i - 7]
          BY <2>2, <4>1
        <5> QED
          BY <5>2, <5>3
      <4> QED
        BY <1>2, <1>t, <1>d, <3>2, <4>1, <4>2 DEF RecipeStep
    <3>3. CASE i = 8 + fwTotal
      <4>1. i - (7 + fwTotal) = 1 /\ ~(i <= 7 + fwTotal) /\ i \in 1 .. 7 + fwTotal + 1
        BY <1>t, <3>3
      <4>2. Recipe[i] = "reset"
        BY <2>1, <2>4, <4>1
      <4> QED
        BY <1>2, <1>t, <3>3, <4>2 DEF RecipeStep
    <3> QED
      BY <1>t, <2>4, <3>1, <3>2, <3>3
  <2>6. Len(Recipe) = (IF fwRom THEN 2 ELSE 8) + fwTotal
    BY <1>2, <1>t, <2>4
  <2> QED
    BY <2>4, <2>5, <2>6
<1> QED
  BY <1>1, <1>2

\* What is in step between two calls follows the phase.
LEMMA fwInStepFollows ==
    ASSUME devInv, Unlocked, fwPhase # "failed"
    PROVE  FollowsPhase /\ Confirmed <= (IF fwRom THEN 2 ELSE 8) + fwTotal /\ Confirmed \in Nat
<1>1. /\ fwTypeOK /\ PhaseFits /\ BetweenCalls /\ fwTotal \in Nat /\ fwSent \in Nat
  BY DEF devInv, Synchronized, fwTypeOK
<1>2. Confirmed <= (IF fwRom THEN 2 ELSE 8) + fwTotal /\ Confirmed \in Nat
  BY <1>1 DEF Confirmed, PhaseFits
<1>3. CASE fwPhase \in {"uploading", "writing"}
  BY <1>1, <1>2, <1>3, fwLoadingFollows DEF BetweenCalls
<1>4. CASE fwPhase \notin {"uploading", "writing"}
  <2>1. /\ Len(fwRan) = Confirmed
        /\ \A i \in 1..Confirmed : fwRan[i] = RecipeStep(fwRom, fwTotal, i)
    <3> HIDE DEF Confirmed
    <3> QED
      BY <1>1, <1>4 DEF BetweenCalls, InStep
  <2> HIDE DEF Confirmed
  <2>2. FollowsPhase
    BY <1>2, <2>1 DEF FollowsPhase
  <2> QED
    BY <1>2, <2>2
<1> QED
  BY <1>3, <1>4

(***************************************************************************)
(* For every set of clients and size of the image, and whatever is refused *)
(* or late, between two calls the device has run the steps that the phase  *)
(* stands for, in the order of the recipe, and no others but packets.      *)
(***************************************************************************)
THEOREM DeviceAlwaysFollowsPhase == fwSpec => []DeviceFollowsPhase
<1>1. devInv => DeviceFollowsPhase
  <2> SUFFICES ASSUME devInv, Unlocked, fwPhase # "failed"
               PROVE  /\ IsPrefix(SubSeq(Recipe, 1, Confirmed), fwRan)
                      /\ \A i \in Confirmed+1 .. Len(fwRan) : fwRan[i] \in Unconfirmed
    BY DEF DeviceFollowsPhase
  <2>1. fwTypeOK
    BY DEF devInv
  <2>2. /\ FollowsPhase /\ Confirmed \in Nat
        /\ Confirmed <= (IF fwRom THEN 2 ELSE 8) + fwTotal
    BY fwInStepFollows
  <2>3. /\ Recipe \in Seq(Command) /\ Confirmed <= Len(Recipe)
        /\ \A i \in 1 .. Len(Recipe) : Recipe[i] = RecipeStep(fwRom, fwTotal, i)
    BY <2>1, <2>2, fwRecipe
  <2>4. fwRan \in Seq(Command) /\ Len(fwRan) \in Nat /\ Len(Recipe) \in Nat
    BY <2>1, <2>3, LenProperties DEF fwTypeOK
  <2> HIDE DEF Confirmed, Recipe
  <2> DEFINE s == SubSeq(Recipe, 1, Confirmed)
             r == SubSeq(fwRan, 1, Confirmed)
  <2>5. Confirmed <= Len(fwRan)
    BY <2>2 DEF FollowsPhase
  <2>6. /\ \A i \in 1..Confirmed : Recipe[i] \in Command
        /\ \A i \in 1..Confirmed : fwRan[i] \in Command
    BY <2>2, <2>3, <2>4, <2>5, ElementOfSeq
  <2>7. /\ s \in Seq(Command) /\ Len(s) = Confirmed
        /\ \A i \in 1..Confirmed : s[i] = Recipe[i]
    <3>1. /\ s \in Seq(Command)
          /\ Len(s) = (IF 1 <= Confirmed THEN Confirmed - 1 + 1 ELSE 0)
          /\ \A i \in 1 .. Confirmed - 1 + 1 : s[i] = Recipe[1 + i - 1]
      BY <2>2, <2>6, SubSeqProperties
    <3> HIDE DEF s
    <3>2. \A i \in 1..Confirmed : 1 + i - 1 = i
      BY <2>2
    <3>3. Confirmed - 1 + 1 = Confirmed
      BY <2>2
    <3> QED
      BY <2>2, <3>1, <3>2, <3>3
  <2>8. /\ r \in Seq(Command) /\ Len(r) = Confirmed
        /\ \A i \in 1..Confirmed : r[i] = fwRan[i]
    <3>1. /\ r \in Seq(Command)
          /\ Len(r) = (IF 1 <= Confirmed THEN Confirmed - 1 + 1 ELSE 0)
          /\ \A i \in 1 .. Confirmed - 1 + 1 : r[i] = fwRan[1 + i - 1]
      BY <2>2, <2>6, SubSeqProperties
    <3> HIDE DEF r
    <3>2. \A i \in 1..Confirmed : 1 + i - 1 = i
      BY <2>2
    <3>3. Confirmed - 1 + 1 = Confirmed
      BY <2>2
    <3> QED
      BY <2>2, <3>1, <3>2, <3>3
  <2>9. s = r
    <3>1. \A i \in 1..Confirmed : Recipe[i] = fwRan[i]
      BY <2>2, <2>3, <2>4 DEF FollowsPhase
    <3> HIDE DEF s, r
    <3> QED
      BY <2>7, <2>8, <3>1, SeqEqual
  <2>10. SubSeq(s, 1, Len(s)) = s
    BY <2>7, SubSeqFull
  <2>11. IsPrefix(s, fwRan)
    <3>1. Len(s) <= Len(fwRan) /\ SubSeq(s, 1, Len(s)) = SubSeq(fwRan, 1, Len(s))
      <4> HIDE DEF s
      <4> QED
        BY <2>5, <2>7, <2>9, <2>10
    <3> QED
      BY <3>1 DEF IsPrefix
  <2>12. \A i \in Confirmed+1 .. Len(fwRan) : fwRan[i] \in Unconfirmed
    BY <2>2 DEF FollowsPhase
  <2> QED
    BY <2>11, <2>12
<1> QED
  BY <1>1, devInvariant, PTL

-----------------------------------------------------------------------------
(***************************************************************************)
(* The initial queries.  The reports of a query carry no mark of it, so    *)
(* what must be inductive is the wire: it is empty between two queries     *)
(* unless the session has failed, and during a query it has only that      *)
(* query's reports.                                                        *)
(***************************************************************************)

WireIsOwn ==
    /\ sdpCaller = NoSdp <=> sdpNext = "none"
    /\ sdpNext \in {"none", "hab", "status"}
    /\ sdpNext = "none" /\ ~sdpFailed => sdpWire = <<>>
    /\ sdpNext = "hab" => sdpRead = {} /\ sdpWire \in Reports(sdpTurn)
    /\ sdpNext = "status" =>
         /\ sdpRead = {sdpTurn}
         /\ sdpWire \in {<<>>, <<[report |-> "status", of |-> sdpTurn]>>}

sdpInv == WireIsOwn /\ StatusIsFresh

USE SdpAssumption

\* The first state.
LEMMA sdpInitInv == sdpInit => sdpInv
  BY DEF sdpInit, sdpInv, WireIsOwn, StatusIsFresh

\* A request goes out on an empty wire.
LEMMA sdpRequestStep == ASSUME sdpInv, NEW c \in SdpClient, sdpRequest(c) PROVE sdpInv'
<1>1. sdpWire = <<>> /\ sdpNext = "none"
  BY DEF sdpInv, WireIsOwn, sdpRequest, sdpUnlocked
<1>2. sdpWire' \in Reports(sdpTurn')
  <2>1. PICK reports \in Reports(sdpTurn') : sdpWire' = sdpWire \o reports
    BY DEF sdpRequest
  <2>2. <<>> \o reports = reports
    BY DEF Reports
  <2> QED
    BY <1>1, <2>1, <2>2
<1>3. CASE sdpFail
  BY <1>3 DEF sdpRequest, sdpFail, sdpInv, WireIsOwn, StatusIsFresh
<1>4. CASE sdpCaller' = c /\ sdpNext' = "hab" /\ sdpRead' = {}
  BY <1>2, <1>4 DEF sdpRequest, sdpInv, WireIsOwn, StatusIsFresh
<1> QED
  BY <1>3, <1>4 DEF sdpRequest

\* A report that is the one due is the query's own, and the last one it reads
\* leaves nothing behind.
LEMMA sdpReceiveStep == ASSUME sdpInv, sdpReceive PROVE sdpInv'
<1> DEFINE hab == [report |-> "hab", of |-> sdpTurn]
           status == [report |-> "status", of |-> sdpTurn]
<1>1. CASE sdpNext = "hab"
  <2>1. sdpWire = <<hab, status>> \/ sdpWire = <<hab>>
    <3>1. /\ sdpWire \in {<<hab, status>>, <<hab>>, <<status>>, <<>>}
          /\ sdpWire # <<>> /\ Head(sdpWire).report = "hab"
      BY <1>1 DEF sdpReceive, sdpInv, WireIsOwn, Reports
    <3> QED
      BY <3>1
  <2>2. Head(sdpWire) = hab /\ Tail(sdpWire) \in {<<>>, <<status>>}
    <3>1. \A a, b : Head(<<a, b>>) = a /\ Tail(<<a, b>>) = <<b>>
      OBVIOUS
    <3>2. \A a : Head(<<a>>) = a /\ Tail(<<a>>) = <<>>
      OBVIOUS
    <3> HIDE DEF hab, status
    <3>3. Head(sdpWire) = hab
      BY <2>1, <3>1, <3>2
    <3>4. CASE sdpWire = <<hab, status>>
      BY <3>1, <3>3, <3>4
    <3>5. CASE sdpWire = <<hab>>
      BY <3>2, <3>3, <3>5
    <3> QED
      BY <2>1, <3>4, <3>5
  <2>3. Head(sdpWire).of = sdpTurn
    BY <2>2
  <2> QED
    BY <1>1, <2>2, <2>3 DEF sdpReceive, sdpInv, WireIsOwn, StatusIsFresh
<1>2. CASE sdpNext = "status"
  <2>1. sdpWire = <<status>> /\ sdpRead = {sdpTurn}
    BY <1>2 DEF sdpReceive, sdpInv, WireIsOwn
  <2>2. Head(sdpWire).of = sdpTurn /\ Tail(sdpWire) = <<>>
    BY <2>1
  <2>3. /\ sdpResult' = [asked |-> sdpTurn, answers |-> {sdpTurn}]
        /\ sdpCaller' = NoSdp /\ sdpNext' = "none" /\ sdpWire' = <<>>
    BY <1>2, <2>1, <2>2 DEF sdpReceive
  <2> QED
    BY <2>3 DEF sdpInv, WireIsOwn, StatusIsFresh
<1> QED
  BY <1>1, <1>2 DEF sdpReceive, sdpInv, WireIsOwn

\* Every step keeps the invariant.
LEMMA sdpStep == sdpInv /\ [NextSdp]_sdpVars => sdpInv'
<1> SUFFICES ASSUME sdpInv, [NextSdp]_sdpVars PROVE sdpInv'
  OBVIOUS
<1>1. ASSUME NEW c \in SdpClient, sdpStart(c) PROVE sdpInv'
  BY <1>1 DEF sdpStart, sdpQuery, sdpInv, WireIsOwn, StatusIsFresh
<1>2. ASSUME NEW c \in SdpClient, sdpStop(c) PROVE sdpInv'
  BY <1>2 DEF sdpStop, sdpQuery, sdpInv, WireIsOwn, StatusIsFresh
<1>3. ASSUME NEW c \in SdpClient, sdpRequest(c) PROVE sdpInv'
  BY <1>3, sdpRequestStep
<1>4. CASE sdpDriverStop
  BY <1>4 DEF sdpDriverStop, sdpQuery, sdpInv, WireIsOwn, StatusIsFresh
<1>5. CASE sdpReceive
  BY <1>5, sdpReceiveStep
<1>6. CASE sdpMalformed \/ sdpTimeout
  BY <1>6 DEF sdpMalformed, sdpTimeout, sdpFail, sdpInv, WireIsOwn, StatusIsFresh
<1>7. CASE UNCHANGED sdpVars
  BY <1>7 DEF sdpVars, sdpQuery, sdpInv, WireIsOwn, StatusIsFresh
<1> QED
  BY <1>1, <1>2, <1>3, <1>4, <1>5, <1>6, <1>7 DEF NextSdp

(***************************************************************************)
(* For every set of clients and number of queries: the reports a query     *)
(* returns are the ones its own request caused, however many clients asked *)
(* before and whatever came late.                                          *)
(***************************************************************************)
THEOREM StatusIsAlwaysFresh == sdpSpec => []StatusIsFresh
<1>1. sdpInv => StatusIsFresh
  BY DEF sdpInv
<1> QED
  BY <1>1, sdpInitInv, sdpStep, PTL DEF sdpSpec

-----------------------------------------------------------------------------
(***************************************************************************)
(* The transfers of both drivers.  Types and balance are inductive         *)
(* together with WaitsForOne: a transfer that is pending without having    *)
(* expired is the one its caller waits for or is about to return from, so  *)
(* a callback with a result to write finds its caller there.               *)
(***************************************************************************)


(***************************************************************************)
(* What is pending was accepted, and what has neither expired nor been     *)
(* completed is the caller's own transfer; a result is there when and only *)
(* when the transfer is done.                                              *)
(***************************************************************************)
WaitsForOne ==
    /\ \A r \in Read : r > irqRead => r \notin irqPending /\ r \notin irqDone
    /\ irqAt = "submitting" => irqRead \notin irqPending /\ irqRead \notin irqDone
    /\ irqPending \cap irqDone = {}
    /\ \A r \in irqPending : r \in irqExpired \/ (r = irqRead /\ irqAt = "waiting")
    /\ \A r \in Read : r \notin irqDone => irqStatus[r] = "none"

irqInv == irqTypeOK /\ WaitsForOne /\ ReferencesBalance

USE ReadAssumption

\* The first state: nothing is pending and nothing is held.
LEMMA irqInitInv == irqInit => irqInv
  BY DEF irqInit, irqInv, irqTypeOK, WaitsForOne, ReferencesBalance, Awaited, Read, Kept

\* A step keeps the types.
LEMMA irqTypeStep == irqInv /\ [irqNext]_irqVars => irqTypeOK'
<1> SUFFICES ASSUME irqInv, [irqNext]_irqVars PROVE irqTypeOK'
  OBVIOUS
<1> USE DEF irqTypeOK, Read, irqResults
<1>t. irqTypeOK
  BY DEF irqInv
<1>b. ReferencesBalance
  BY DEF irqInv
<1>1. CASE irqSubmit
  BY <1>t, <1>1 DEF irqSubmit, Kept
<1>2. CASE irqAccepted
  BY <1>t, <1>2 DEF irqAccepted
<1>3. CASE irqRejected
  <2>1. irqRefs[irqRead] = 1 + Kept
    BY <1>t, <1>b, <1>3 DEF irqRejected, ReferencesBalance, Awaited, Kept
  <2> QED
    BY <1>t, <1>3, <2>1 DEF irqRejected, Kept
<1>4. CASE irqWake
  BY <1>t, <1>4 DEF irqWake
<1>5. CASE irqExpire
  BY <1>t, <1>5 DEF irqExpire
<1>6. CASE irqReturn
  <2>1. irqRefs[irqRead] \in 1..2
    BY <1>t, <1>b, <1>6 DEF irqReturn, ReferencesBalance, Awaited, Kept
  <2> QED
    BY <1>t, <1>6, <2>1 DEF irqReturn
<1>7. ASSUME NEW r \in Read, NEW status \in {"ok", "error"}, irqComplete(r, status)
      PROVE  irqTypeOK'
  <2>1. irqRefs[r] \in 0..2 /\ irqRefs[r] - Kept \in 0..2
    BY <1>t, <1>b, <1>7 DEF irqComplete, ReferencesBalance, Awaited, Kept
  <2>2. irqRefs' \in [Read -> 0..2]
    BY <1>t, <1>7, <2>1 DEF irqComplete
  <2>3. irqStatus' \in [Read -> {"none", "ok", "error"}] /\ irqDone' \subseteq Read
    BY <1>t, <1>7 DEF irqComplete
  <2>4. /\ irqDriver' \in {"firmware", "sdp"}
        /\ irqAt' \in {"out", "submitting", "waiting", "returning"}
        /\ irqRead' \in 0..MaxReads /\ (irqAt' # "out" => irqRead' \in Read)
        /\ irqBuffer' \subseteq Read /\ irqPending' \subseteq Read
        /\ irqExpired' \subseteq Read
    BY <1>t, <1>7 DEF irqComplete
  <2> QED
    BY <2>2, <2>3, <2>4
<1>8. CASE UNCHANGED irqVars
  BY <1>t, <1>8 DEF irqVars
<1> QED
  BY <1>1, <1>2, <1>3, <1>4, <1>5, <1>6, <1>7, <1>8 DEF irqNext

\* A step keeps WaitsForOne.
LEMMA irqWaitStep == irqInv /\ [irqNext]_irqVars => WaitsForOne'
<1> SUFFICES ASSUME irqInv, [irqNext]_irqVars PROVE WaitsForOne'
  OBVIOUS
<1> USE DEF WaitsForOne, irqTypeOK, Read, irqResults
<1>i. irqTypeOK /\ WaitsForOne
  BY DEF irqInv
<1>1. CASE irqSubmit
  BY <1>i, <1>1 DEF irqSubmit
<1>2. CASE irqAccepted
  BY <1>i, <1>2 DEF irqAccepted
<1>3. CASE irqRejected
  BY <1>i, <1>3 DEF irqRejected
<1>4. CASE irqWake
  BY <1>i, <1>4 DEF irqWake
<1>5. CASE irqExpire
  BY <1>i, <1>5 DEF irqExpire
<1>6. CASE irqReturn
  BY <1>i, <1>6 DEF irqReturn
<1>7. ASSUME NEW r \in Read, NEW status \in {"ok", "error"}, irqComplete(r, status)
      PROVE  WaitsForOne'
  BY <1>i, <1>7 DEF irqComplete
<1>8. CASE UNCHANGED irqVars
  BY <1>i, <1>8 DEF irqVars
<1> QED
  BY <1>1, <1>2, <1>3, <1>4, <1>5, <1>6, <1>7, <1>8 DEF irqNext

\* A step keeps the references balanced.
LEMMA irqBalanceStep == irqInv /\ [irqNext]_irqVars => ReferencesBalance'
<1> SUFFICES ASSUME irqInv, [irqNext]_irqVars PROVE ReferencesBalance'
  OBVIOUS
<1> USE DEF ReferencesBalance, Awaited, Kept, irqTypeOK, Read, irqResults
<1>i. irqTypeOK /\ WaitsForOne /\ ReferencesBalance
  BY DEF irqInv
<1>1. CASE irqSubmit
  <2>1. irqRead' \notin irqPending
    BY <1>i, <1>1 DEF irqSubmit, WaitsForOne
  <2> QED
    BY <1>i, <1>1, <2>1 DEF irqSubmit
<1>2. CASE irqAccepted
  BY <1>i, <1>2 DEF irqAccepted
<1>3. CASE irqRejected
  BY <1>i, <1>3 DEF irqRejected, WaitsForOne
<1>4. CASE irqWake
  BY <1>i, <1>4 DEF irqWake
<1>5. CASE irqExpire
  BY <1>i, <1>5 DEF irqExpire
<1>6. CASE irqReturn
  BY <1>i, <1>6 DEF irqReturn
<1>7. ASSUME NEW r \in Read, NEW status \in {"ok", "error"}, irqComplete(r, status)
      PROVE  ReferencesBalance'
  BY <1>i, <1>7 DEF irqComplete
<1>8. CASE UNCHANGED irqVars
  BY <1>i, <1>8 DEF irqVars
<1> QED
  BY <1>1, <1>2, <1>3, <1>4, <1>5, <1>6, <1>7, <1>8 DEF irqNext

\* The three together are an invariant.
LEMMA irqInvariant == irqSpec => []irqInv
<1>1. irqInit => irqInv
  BY irqInitInv
<1>2. irqInv /\ [irqNext]_irqVars => irqInv'
  BY irqTypeStep, irqWaitStep, irqBalanceStep DEF irqInv
<1> QED
  BY <1>1, <1>2, PTL DEF irqSpec

(***************************************************************************)
(* For every number of transfers and both drivers, the references on the   *)
(* actions and buffers balance, whatever comes in whatever order.          *)
(***************************************************************************)
THEOREM ReferencesAlwaysBalance == irqSpec => []ReferencesBalance
<1>1. irqInv => ReferencesBalance
  BY DEF irqInv
<1> QED
  BY <1>1, irqInvariant, PTL

\* A step that changes a result does so while its caller waits for it.
LEMMA irqResultStep ==
    irqInv /\ [irqNext]_irqVars =>
        \A r \in Read :
            irqStatus'[r] # irqStatus[r] =>
                irqAt = "waiting" /\ r = irqRead /\ irqStatus[r] = "none"
<1> SUFFICES ASSUME irqInv, [irqNext]_irqVars, NEW r \in Read,
                    irqStatus'[r] # irqStatus[r]
             PROVE  irqAt = "waiting" /\ r = irqRead /\ irqStatus[r] = "none"
  OBVIOUS
<1>1. PICK q \in Read, status \in {"ok", "error"} : irqComplete(q, status)
  BY DEF irqNext, irqVars, irqResults, irqSubmit, irqAccepted, irqRejected, irqWake,
         irqExpire, irqReturn
<1>2. q = r /\ r \in irqPending /\ r \notin irqExpired
  BY <1>1 DEF irqComplete, irqInv, irqTypeOK
<1> QED
  BY <1>2 DEF irqInv, WaitsForOne

(***************************************************************************)
(* For every number of transfers, the answer to a transfer that expired is *)
(* never written, and a result is written once.                            *)
(***************************************************************************)
THEOREM LateAnswersAreAlwaysDropped == irqSpec => LateAnswersAreDropped
<1>1. irqInv /\ [irqNext]_irqVars =>
        [\A r \in Read :
            irqStatus'[r] # irqStatus[r] =>
                irqAt = "waiting" /\ r = irqRead /\ irqStatus[r] = "none"]_irqVars
  BY irqResultStep
<1> QED
  BY <1>1, irqInvariant, PTL DEF irqSpec, LateAnswersAreDropped
=============================================================================
