---------------------------- MODULE FirmwareSession ----------------------------
(***************************************************************************)
(* The firmware session driver of iOS: Programmer of                       *)
(* ios/FirmwareSessionDriver/Programming.hpp, the driver that runs it      *)
(* under its lock, and the user clients that call it.                      *)
(*                                                                         *)
(* A call is a list of USB transfers; the lock is held until the last has  *)
(* been answered or one has failed.  Nothing in an answer says which       *)
(* request it answers beyond the command's tag, so an answer that comes    *)
(* after its deadline would be taken for that of the next such command.    *)
(* Data is counted in packets.  The device's boot loader is not part of    *)
(* the repository: it does what it is sent, in order, or refuses, and its  *)
(* answers wait on the wire; how late they are shows as a timeout.         *)
(***************************************************************************)
EXTENDS Naturals, Sequences, SequencesExt, FiniteSets

CONSTANTS
    Client,     \* the user clients
    NoClient,   \* no client
    MaxTotal    \* bound on the packets of an image

ASSUME SessionAssumption == NoClient \notin Client /\ MaxTotal \in Nat

VARIABLES
    fwRom,              \* rom_: the boot ROM, or else the flash loader
    fwPhase,            \* phase_
    fwTotal, fwSent,    \* total_ and sent_
    fwConnected,        \* connected, interface and pipes: the USB device is open
    fwStop,             \* Stop: "no", "stopped" or "closed"
    fwOpen,             \* clients that are started
    fwHas,              \* clients whose connected flag is set
    fwCaller,           \* the client whose call holds the lock, or NoClient
    fwTodo,             \* transfers its call has left
    fwThen,             \* the phase its call leads to
    fwPlugged,          \* the device is there
    fwRan,              \* commands the device has run
    fwWire              \* answers not read yet

fwSession == <<fwPhase, fwTotal, fwSent>>
fwClients == <<fwOpen, fwHas>>
fwCall == <<fwCaller, fwTodo, fwThen>>
fwDevice == <<fwRan, fwWire>>
fwVars == <<fwRom, fwSession, fwConnected, fwStop, fwClients, fwCall, fwPlugged, fwDevice>>

fwInit ==
    /\ fwRom \in BOOLEAN
    /\ fwPhase = "ready" /\ fwTotal = 0 /\ fwSent = 0
    /\ fwConnected = FALSE /\ fwStop = "no"
    /\ fwOpen = Client /\ fwHas = {}
    /\ fwCaller = NoClient /\ fwTodo = <<>> /\ fwThen = "ready"
    /\ fwPlugged = TRUE /\ fwRan = <<>> /\ fwWire = <<>>

Unlocked == fwCaller = NoClient

-----------------------------------------------------------------------------
(* The calls and their transfers *)

Out(command) == [out |-> TRUE, what |-> command]
In(answer) == [out |-> FALSE, what |-> answer]

\* fixed: a command and its answer.
Fixed(command, answer) == <<Out(command), In(answer)>>

Data(n) == [i \in 1..n |-> Out("data")]

\* What is read after the last packet: romReceipt, or the loader's answer.
Receipt == IF fwRom THEN <<In("hab"), In("status")>> ELSE <<In("write")>>

BeginTransfers ==
    IF fwRom THEN <<Out("download")>> ELSE Fixed("property", "property")

\* The transfers of advance, in the phases that have any.
AdvanceTransfers ==
    CASE fwPhase = "uploaded"    -> Fixed("jump", "hab")
      [] fwPhase = "loaderReady" -> Fixed("fillConfig", "fill") \o Fixed("configure", "configure")
      [] fwPhase = "configured"  -> Fixed("erase", "erase")
      [] fwPhase = "erased"      -> Fixed("fillFcb", "fill") \o Fixed("configure", "configure")
      [] fwPhase = "fcbCreated"  -> Fixed("write", "write")
      [] fwPhase = "written"     -> Fixed("reset", "reset")
      [] OTHER -> <<>>

PhaseAfterAdvance ==
    [uploaded |-> "jumped", loaderReady |-> "configured", configured |-> "erased",
     erased |-> "fcbCreated", fcbCreated |-> "writing", written |-> "reset"]

-----------------------------------------------------------------------------
(* The user clients and the driver *)

\* Variants named ...Slip are the next definition with a plausible mistake.
FailSlip ==
    /\ fwPhase' = "ready" /\ fwConnected' = FALSE
    /\ fwCaller' = NoClient /\ fwTodo' = <<>>
    /\ UNCHANGED <<fwTotal, fwSent, fwThen>>

\* The session is poisoned and the USB device closed; the call, if any, is over.
Fail ==
    /\ fwPhase' = "failed" /\ fwConnected' = FALSE
    /\ fwCaller' = NoClient /\ fwTodo' = <<>>
    /\ UNCHANGED <<fwTotal, fwSent, fwThen>>

HandshakeSlip(c) ==
    /\ Unlocked /\ c \in fwOpen \ fwHas
    /\ fwStop = "no" /\ fwPhase # "failed"
    /\ fwPlugged
    /\ fwConnected' = TRUE /\ fwHas' = fwHas \cup {c}
    /\ UNCHANGED <<fwRom, fwSession, fwStop, fwOpen, fwCall, fwPlugged, fwDevice>>

\* Connect: not after a stop, a failure or another client's handshake.  When
\* a step of the set-up fails everything is closed again, which changes nothing.
Handshake(c) ==
    /\ Unlocked /\ c \in fwOpen \ fwHas
    /\ fwStop = "no" /\ fwPhase # "failed" /\ ~fwConnected
    /\ fwPlugged
    /\ fwConnected' = TRUE /\ fwHas' = fwHas \cup {c}
    /\ UNCHANGED <<fwRom, fwSession, fwStop, fwOpen, fwCall, fwPlugged, fwDevice>>

\* A client stops: if it had connected, it disconnects the driver.
ClientStop(c) ==
    /\ c \in fwOpen /\ fwOpen' = fwOpen \ {c} /\ fwHas' = fwHas \ {c}
    /\ IF c \in fwHas THEN Unlocked /\ Fail
       ELSE UNCHANGED <<fwSession, fwConnected, fwCall>>
    /\ UNCHANGED <<fwRom, fwStop, fwPlugged, fwDevice>>

\* Execute takes the lock; not after a stop or without the pipes.
Executes(c) == Unlocked /\ c \in fwHas /\ fwStop = "no" /\ fwConnected

CallFrame == UNCHANGED <<fwRom, fwStop, fwClients, fwPlugged, fwDevice>>

Transfers(c, todo, then) ==
    /\ fwCaller' = c /\ fwTodo' = todo /\ fwThen' = then
    /\ UNCHANGED <<fwPhase, fwSent, fwConnected>>

\* begin, of an image of n packets; a length that is not allowed is n = 0.
Begin(c, n) ==
    /\ Executes(c)
    /\ IF fwPhase = "ready" /\ n > 0
       THEN /\ fwTotal' = n
            /\ Transfers(c, BeginTransfers, IF fwRom THEN "uploading" ELSE "loaderReady")
       ELSE Fail
    /\ CallFrame

\* append, of n packets; the last ones are followed by the receipt.
AppendData(c, n) ==
    /\ Executes(c)
    /\ IF fwPhase \in {"uploading", "writing"} /\ n <= fwTotal - fwSent
       THEN /\ IF fwSent + n = fwTotal
               THEN Transfers(c, Data(n) \o Receipt, IF fwRom THEN "uploaded" ELSE "written")
               ELSE Transfers(c, Data(n), fwPhase)
            /\ UNCHANGED fwTotal
       ELSE Fail
    /\ CallFrame

Advance(c) ==
    /\ Executes(c)
    /\ IF fwPhase \in DOMAIN PhaseAfterAdvance
       THEN Transfers(c, AdvanceTransfers, PhaseAfterAdvance[fwPhase]) /\ UNCHANGED fwTotal
       ELSE Fail
    /\ CallFrame

CancelSession(c) == Executes(c) /\ Fail /\ CallFrame

-----------------------------------------------------------------------------
(* The transfers of the call that holds the lock *)

CountData == Cardinality({i \in DOMAIN fwRan : fwRan[i] = "data"})

\* The device's answers to a command it runs; packets before the last have none.
Answers(command) ==
    CASE command = "download" -> <<>>
      [] command = "data" -> IF CountData + 1 # fwTotal THEN <<>>
                             ELSE IF fwRom THEN <<"hab", "status">> ELSE <<"write">>
      [] command = "jump" -> <<"hab">>
      [] command \in {"fillConfig", "fillFcb"} -> <<"fill">>
      [] OTHER -> <<command>>

\* A command reaches the device, which runs or refuses it.
Deliver(command) ==
    \/ fwRan' = Append(fwRan, command) /\ fwWire' = fwWire \o Answers(command)
    \/ fwWire' = Append(fwWire, "error") /\ UNCHANGED fwRan

TransferFrame == UNCHANGED <<fwRom, fwStop, fwClients, fwPlugged>>

\* submitReport: the command is delivered in full and in time.
Send ==
    /\ fwTodo # <<>> /\ Head(fwTodo).out /\ fwPlugged
    /\ Deliver(Head(fwTodo).what)
    /\ fwTodo' = Tail(fwTodo)
    /\ fwSent' = fwSent + (IF Head(fwTodo).what = "data" THEN 1 ELSE 0)
    /\ UNCHANGED <<fwPhase, fwTotal, fwConnected, fwCaller, fwThen>> /\ TransferFrame

\* It is not, or the driver is told so although it was.
SendFails ==
    /\ fwTodo # <<>> /\ Head(fwTodo).out /\ Fail
    /\ (fwPlugged /\ Deliver(Head(fwTodo).what)) \/ UNCHANGED fwDevice
    /\ TransferFrame

\* An answer is read: the right one, ...
Receive ==
    /\ fwTodo # <<>> /\ ~Head(fwTodo).out /\ fwPlugged /\ fwWire # <<>>
    /\ fwWire' = Tail(fwWire)
    /\ IF Head(fwWire) = Head(fwTodo).what
       THEN fwTodo' = Tail(fwTodo)
            /\ UNCHANGED <<fwSession, fwConnected, fwCaller, fwThen>>
       ELSE Fail
    /\ UNCHANGED fwRan /\ TransferFrame

ReceiveFailsSlip ==
    /\ fwTodo # <<>> /\ ~Head(fwTodo).out /\ fwPlugged /\ Fail
    /\ UNCHANGED fwDevice /\ TransferFrame

\* ... or none before the deadline.
ReceiveFails ==
    /\ fwTodo # <<>> /\ ~Head(fwTodo).out /\ Fail
    /\ UNCHANGED fwDevice /\ TransferFrame

\* The call has done all its transfers.
CallReturns ==
    /\ fwCaller # NoClient /\ fwTodo = <<>>
    /\ fwPhase' = fwThen /\ fwCaller' = NoClient
    /\ UNCHANGED <<fwTotal, fwSent, fwConnected, fwTodo, fwThen, fwDevice>> /\ TransferFrame

fwTransfer == Send \/ SendFails \/ Receive \/ ReceiveFails \/ CallReturns

-----------------------------------------------------------------------------
(* The device goes *)

Unplug ==
    /\ fwPlugged /\ fwPlugged' = FALSE
    /\ UNCHANGED <<fwRom, fwSession, fwConnected, fwStop, fwClients, fwCall, fwDevice>>

\* Stop_Impl: it waits for the lock, forbids further calls, ...
DriverStop ==
    /\ ~fwPlugged /\ Unlocked /\ fwStop = "no" /\ fwStop' = "stopped"
    /\ UNCHANGED <<fwRom, fwSession, fwConnected, fwClients, fwCall, fwPlugged, fwDevice>>

\* ... and disconnects.
DriverDisconnect ==
    /\ fwStop = "stopped" /\ fwStop' = "closed" /\ Unlocked /\ Fail
    /\ UNCHANGED <<fwRom, fwClients, fwPlugged, fwDevice>>

-----------------------------------------------------------------------------
fwNext ==
    \/ \E c \in Client :
         \/ Handshake(c) \/ ClientStop(c) \/ Advance(c) \/ CancelSession(c)
         \/ \E n \in 0..MaxTotal : Begin(c, n)
         \/ \E n \in 1..MaxTotal : AppendData(c, n)
    \/ fwTransfer \/ Unplug \/ DriverStop \/ DriverDisconnect

fwSpec == fwInit /\ [][fwNext]_fwVars

-----------------------------------------------------------------------------
(* Properties *)

Phase == {"ready", "uploading", "uploaded", "jumped", "loaderReady", "configured",
          "erased", "fcbCreated", "writing", "written", "reset", "failed"}

Answer == {"hab", "status", "property", "fill", "configure", "erase", "write", "reset",
           "error"}
Command == {"download", "data", "jump", "property", "fillConfig", "fillFcb", "configure",
            "erase", "write", "reset"}

\* Every variable has its type.
fwTypeOK ==
    /\ fwRom \in BOOLEAN /\ fwPhase \in Phase /\ fwThen \in Phase
    /\ fwTotal \in 0..MaxTotal /\ fwSent \in 0..MaxTotal
    /\ fwConnected \in BOOLEAN /\ fwStop \in {"no", "stopped", "closed"}
    /\ fwOpen \subseteq Client /\ fwHas \subseteq Client
    /\ fwCaller \in Client \cup {NoClient}
    /\ fwTodo \in Seq([out : {TRUE}, what : Command] \cup [out : {FALSE}, what : Answer])
    /\ fwPlugged \in BOOLEAN /\ fwRan \in Seq(Command) /\ fwWire \in Seq(Answer)

\* What has been done, in order, when the whole image is programmed.
Recipe ==
    IF fwRom
    THEN <<"download">> \o [i \in 1..fwTotal |-> "data"] \o <<"jump">>
    ELSE <<"property", "fillConfig", "configure", "erase", "fillFcb", "configure", "write">>
         \o [i \in 1..fwTotal |-> "data"] \o <<"reset">>

\* How many steps of it each phase stands for.
Confirmed ==
    CASE fwPhase \in {"ready", "uploading"} -> 0
      [] fwPhase = "uploaded" -> 1 + fwTotal
      [] fwPhase = "jumped" -> 2 + fwTotal
      [] fwPhase = "loaderReady" -> 1
      [] fwPhase = "configured" -> 3
      [] fwPhase = "erased" -> 4
      [] fwPhase = "fcbCreated" -> 6
      [] fwPhase = "writing" -> 7
      [] fwPhase = "written" -> 7 + fwTotal
      [] fwPhase = "reset" -> 8 + fwTotal

\* What may follow the confirmed steps: packets and the ROM's download
\* command, which are not answered one by one.
Unconfirmed ==
    CASE fwPhase = "uploading" -> {"download", "data"}
      [] fwPhase = "writing" -> {"data"}
      [] OTHER -> {}

(***************************************************************************)
(* Between two calls the phase is the truth: unless the session failed,    *)
(* the device has run every step the phase stands for, in the order of the *)
(* recipe and once each, and nothing else but unconfirmed packets.  No     *)
(* late answer, refused command or second client makes the driver say      *)
(* that a device is programmed that is not.                                *)
(***************************************************************************)
DeviceFollowsPhase ==
    Unlocked /\ fwPhase # "failed" =>
        /\ IsPrefix(SubSeq(Recipe, 1, Confirmed), fwRan)
        /\ \A i \in Confirmed+1 .. Len(fwRan) : fwRan[i] \in Unconfirmed

(***************************************************************************)
(* The session has one client in its life: two never both hold it, the     *)
(* open USB device has its client, and the call that holds the lock is     *)
(* that client's.                                                          *)
(***************************************************************************)
OneClient ==
    /\ \A c, d \in fwHas : c = d
    /\ fwConnected => fwHas # {}
    /\ fwCaller # NoClient => fwCaller \in fwHas /\ fwConnected

\* Once the device is unplugged the driver comes to stop, whatever call is
\* under way, and nothing stays open.
UnplugCompletes == ~fwPlugged ~> fwStop = "closed" /\ ~fwConnected
=============================================================================
