------------------------------- MODULE InitialSdp -------------------------------
(***************************************************************************)
(* The status driver of iOS: Session and exchange of                       *)
(* ios/InitialSdpDriver/StatusOnly.hpp, InitialSdpDriver.cpp and its user  *)
(* client.  A query sends one request and reads two reports, HAB and       *)
(* status; a report does not say which request it answers.  Unlike the     *)
(* firmware driver this one may be used by one client after another, so    *)
(* nothing of a query may stay on the wire when it succeeds.               *)
(***************************************************************************)
EXTENDS Naturals, Sequences

CONSTANTS
    SdpClient,  \* the user clients
    NoSdp,      \* no client
    MaxQueries  \* bound on the requests sent

ASSUME SdpAssumption == NoSdp \notin SdpClient /\ MaxQueries \in Nat

VARIABLES
    sdpFailed,      \* session.failed
    sdpConnected,   \* connected, interface and pipe
    sdpStopped,     \* stopped
    sdpNew,         \* clients not started yet
    sdpHas,         \* clients that hold the driver
    sdpCaller,      \* the client whose query holds the lock, or NoSdp
    sdpNext,        \* the report its query reads next, or "none"
    sdpTurn,        \* requests sent
    sdpWire,        \* reports not read yet, with the request each answers
    sdpRead,        \* the requests whose reports the query has read
    sdpResult       \* those of the last query that succeeded, and its own

sdpClients == <<sdpNew, sdpHas>>
sdpQuery == <<sdpCaller, sdpNext, sdpRead>>
sdpVars == <<sdpFailed, sdpConnected, sdpStopped, sdpClients, sdpQuery, sdpTurn, sdpWire,
             sdpResult>>

sdpInit ==
    /\ sdpFailed = FALSE /\ sdpConnected = FALSE /\ sdpStopped = FALSE
    /\ sdpNew = SdpClient /\ sdpHas = {}
    /\ sdpCaller = NoSdp /\ sdpNext = "none" /\ sdpRead = {}
    /\ sdpTurn = 0 /\ sdpWire = <<>>
    /\ sdpResult = [asked |-> 0, answers |-> {0}]

sdpUnlocked == sdpCaller = NoSdp

-----------------------------------------------------------------------------
\* A client starts, which connects; a set-up that fails is undone, and the
\* client is refused.
sdpStart(c) ==
    /\ c \in sdpNew /\ sdpNew' = sdpNew \ {c} /\ sdpUnlocked
    /\ \/ /\ ~sdpStopped /\ ~sdpFailed /\ ~sdpConnected
          /\ sdpConnected' = TRUE /\ sdpHas' = sdpHas \cup {c}
       \/ UNCHANGED <<sdpConnected, sdpHas>>
    /\ UNCHANGED <<sdpFailed, sdpStopped, sdpQuery, sdpTurn, sdpWire, sdpResult>>

\* A client that holds the driver stops, which disconnects.
sdpStop(c) ==
    /\ c \in sdpHas /\ sdpHas' = sdpHas \ {c} /\ sdpUnlocked
    /\ sdpConnected' = FALSE
    /\ UNCHANGED <<sdpFailed, sdpStopped, sdpNew, sdpQuery, sdpTurn, sdpWire, sdpResult>>

\* The driver stops; the two steps, each under the lock, are one here.
sdpDriverStop ==
    /\ ~sdpStopped /\ sdpStopped' = TRUE /\ sdpUnlocked
    /\ sdpConnected' = FALSE
    /\ UNCHANGED <<sdpFailed, sdpClients, sdpQuery, sdpTurn, sdpWire, sdpResult>>

\* What a request that reaches the device puts on the wire, in time or late:
\* both reports, one of them, or none.
Reports(turn) ==
    LET hab == [report |-> "hab", of |-> turn]
        status == [report |-> "status", of |-> turn]
    IN  {<<hab, status>>, <<hab>>, <<status>>, <<>>}

\* transport or malformed: the session is poisoned, the device closed and
\* the query over.
sdpFail ==
    /\ sdpFailed' = TRUE /\ sdpConnected' = FALSE
    /\ sdpCaller' = NoSdp /\ sdpNext' = "none" /\ sdpRead' = {}

\* Query takes the lock and sends its request, which may fail and still have
\* reached the device.
sdpRequest(c) ==
    /\ c \in sdpHas /\ sdpUnlocked /\ ~sdpStopped /\ sdpConnected /\ ~sdpFailed
    /\ sdpTurn < MaxQueries /\ sdpTurn' = sdpTurn + 1
    /\ \E reports \in Reports(sdpTurn') : sdpWire' = sdpWire \o reports
    /\ \/ sdpFail
       \/ /\ sdpCaller' = c /\ sdpNext' = "hab" /\ sdpRead' = {}
          /\ UNCHANGED <<sdpFailed, sdpConnected>>
    /\ UNCHANGED <<sdpStopped, sdpClients, sdpResult>>

\* The report that is due is read.
sdpReceive ==
    /\ sdpNext # "none" /\ sdpWire # <<>> /\ sdpWire' = Tail(sdpWire)
    /\ Head(sdpWire).report = sdpNext
    /\ LET read == sdpRead \cup {Head(sdpWire).of} IN
       IF sdpNext = "hab"
       THEN sdpNext' = "status" /\ sdpRead' = read /\ UNCHANGED <<sdpCaller, sdpResult>>
       ELSE /\ sdpCaller' = NoSdp /\ sdpNext' = "none" /\ sdpRead' = {}
            /\ sdpResult' = [asked |-> sdpTurn, answers |-> read]
    /\ UNCHANGED <<sdpFailed, sdpConnected, sdpStopped, sdpClients, sdpTurn>>

sdpMalformedSlip ==
    /\ sdpNext # "none" /\ sdpWire # <<>> /\ sdpWire' = Tail(sdpWire)
    /\ sdpCaller' = NoSdp /\ sdpNext' = "none" /\ sdpRead' = {}
    /\ UNCHANGED <<sdpFailed, sdpConnected>>
    /\ UNCHANGED <<sdpStopped, sdpClients, sdpTurn, sdpResult>>

\* Another report, or one with a wrong length or an unknown HAB word.
sdpMalformed ==
    /\ sdpNext # "none" /\ sdpWire # <<>> /\ sdpWire' = Tail(sdpWire)
    /\ sdpFail
    /\ UNCHANGED <<sdpStopped, sdpClients, sdpTurn, sdpResult>>

\* No report before the deadline, or an error; a late one stays on the wire.
sdpTimeout ==
    /\ sdpNext # "none" /\ sdpFail
    /\ UNCHANGED <<sdpStopped, sdpClients, sdpTurn, sdpWire, sdpResult>>

NextSdp ==
    \/ \E c \in SdpClient : sdpStart(c) \/ sdpStop(c) \/ sdpRequest(c)
    \/ sdpDriverStop \/ sdpReceive \/ sdpMalformed \/ sdpTimeout

sdpSpec == sdpInit /\ [][NextSdp]_sdpVars

-----------------------------------------------------------------------------
(* Properties *)

Report == [report : {"hab", "status"}, of : 1..MaxQueries]

\* Every variable has its type.
sdpTypeOK ==
    /\ sdpFailed \in BOOLEAN /\ sdpConnected \in BOOLEAN /\ sdpStopped \in BOOLEAN
    /\ sdpNew \subseteq SdpClient /\ sdpHas \subseteq SdpClient
    /\ sdpCaller \in SdpClient \cup {NoSdp} /\ sdpNext \in {"none", "hab", "status"}
    /\ sdpTurn \in 0..MaxQueries /\ sdpWire \in Seq(Report)
    /\ sdpRead \subseteq 1..MaxQueries
    /\ sdpResult \in [asked : 0..MaxQueries, answers : SUBSET (0..MaxQueries)]

(***************************************************************************)
(* A query that succeeds returns the reports its own request caused, never *)
(* those of an earlier one, which came late or were left unread, whoever   *)
(* asked then.                                                             *)
(***************************************************************************)
StatusIsFresh == sdpResult.answers = {sdpResult.asked}
=============================================================================
