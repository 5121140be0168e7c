----------------------------- MODULE RequestKeys -----------------------------
(***************************************************************************)
(* The addresses of requests and replies: lib/domain/request_key.dart.     *)
(*                                                                         *)
(* The SysEx protocol has no transaction identifier.  A reply is           *)
(* recognised by its message type and by the indices its payload repeats,  *)
(* so which replies a request can take for its own is decided entirely by  *)
(* the two matching functions below.  The sysExId is the same for all      *)
(* traffic of one scheduler (a packet with another one is dropped before   *)
(* it reaches them) and is left out, and so is libraryIndex, which no      *)
(* matching function reads.                                                *)
(***************************************************************************)
EXTENDS Integers

CONSTANTS
    Slots,      \* algorithm slots of the preset
    Params,     \* parameter numbers
    Ops,        \* SdCardOperation codes
    Absent         \* the null of an optional field of a RequestKey

ASSUME AbsentAssumption == Absent \notin Slots /\ Absent \notin Params /\ Absent \notin Ops

(***************************************************************************)
(* The keys lib/domain/disting_midi_manager.dart builds, one record shape  *)
(* per family of message types: replies that repeat the slot, replies that *)
(* repeat slot and parameter, replies that repeat nothing, SD-card replies *)
(* and requests that get no typed reply (plug-in traffic and writes).      *)
(***************************************************************************)
Address(type, slot, param, op) ==
    [type |-> type, slot |-> slot, param |-> param, op |-> op]

AlgorithmKeys == {Address("algorithm", s, Absent, Absent) : s \in Slots}
MemoryKeys    == {Address("memoryUsage", Absent, Absent, Absent)}
PagesKeys     == {Address("parameterPages", s, Absent, Absent) : s \in Slots}
ValueKeys     == {Address("parameterValue", s, p, Absent) : s \in Slots, p \in Params}
EnumKeys      == {Address("enumStrings", s, p, Absent) : s \in Slots, p \in Params}
SdKeys        == {Address("directoryListing", Absent, Absent, o) : o \in Ops}
UntypedKeys   == {Address("none", Absent, Absent, Absent)}

Key == AlgorithmKeys \cup MemoryKeys \cup PagesKeys \cup ValueKeys
         \cup EnumKeys \cup SdKeys \cup UntypedKeys

(***************************************************************************)
(* RequestKey.fromDistingNTParsedMessage applied to a reply gives a record *)
(* of the same shape; sdError is payload[0] # 0 of an SD-card reply, which *)
(* then names no operation.  The replies the device may send for a request *)
(* with key k: the indices it repeats are the request's, except that the   *)
(* firmware may return a corrupted parameter number for enum strings.      *)
(***************************************************************************)
Replies(k) ==
    CASE k.type = "enumStrings" ->
            {[addr |-> [k EXCEPT !.param = p], sdError |-> FALSE] : p \in Params}
      [] k.type = "directoryListing" ->
            {[addr |-> k, sdError |-> FALSE],
             [addr |-> [k EXCEPT !.op = Absent], sdError |-> TRUE]}
      [] OTHER -> {[addr |-> k, sdError |-> FALSE]}

Agrees(want, got) == want = Absent \/ want = got

\* _matchesSdCardOperation: an error frame answers whichever operation asks.
MatchesSdCardOperation(k, m) ==
    \/ k.op = Absent
    \/ k.type = "directoryListing" /\ m.sdError
    \/ k.op = m.addr.op

\* matchesStrict: every index the key fixes is the reply's.
MatchesStrict(k, m) ==
    /\ k.type = m.addr.type
    /\ Agrees(k.slot, m.addr.slot)
    /\ Agrees(k.param, m.addr.param)
    /\ MatchesSdCardOperation(k, m)

\* matches: the same, but the parameter number of enum strings is not compared.
Matches(k, m) ==
    /\ k.type = m.addr.type
    /\ Agrees(k.slot, m.addr.slot)
    /\ \/ k.type = "enumStrings"
       \/ /\ Agrees(k.param, m.addr.param)
          /\ MatchesSdCardOperation(k, m)
=============================================================================
