------------------------------- MODULE MCTraffic -------------------------------
(***************************************************************************)
(* Three requests of one of five mixes: two kinds of an ordinary read and  *)
(* a strict read of one slot and a memory query; parameter reads, optional *)
(* reads and cancellable writes without a reply; SD-card and plug-in       *)
(* writes and the same silent writes.  Replies of parameter reads may be   *)
(* mis-addressed.                                                          *)
(***************************************************************************)
EXTENDS MessageScheduler, TLC

CONSTANTS r1, r2, r3, null

MCSlots == {0}
MCParams == {1, 2}
MCOps == {4}

Ask(key, policy, expect, retries) ==
    [key |-> key, policy |-> policy, expect |-> expect, retries |-> retries,
     delayed |-> FALSE, cancellable |-> FALSE, raw |-> FALSE]
Slot0  == Address("algorithm", 0, null, null)
Memory == Address("memoryUsage", null, null, null)
NoKey  == Address("none", null, null, null)

SlotRead ==
    [Ask(Slot0, "bestEffort", "required", 2) EXCEPT !.delayed = TRUE]
StrictRead ==
    [Ask(Slot0, "rejectAmbiguousResponse", "required", 1)
        EXCEPT !.delayed = TRUE, !.cancellable = TRUE]
MemoryQuery ==
    [Ask(Memory, "failWhenAmbiguous", "required", 1) EXCEPT !.delayed = TRUE]
EnumRead ==
    [Ask(Address("enumStrings", 0, 1, null), "bestEffort", "required", 2)
        EXCEPT !.delayed = TRUE]
ValueRead   == Ask(Address("parameterValue", 0, 1, null), "bestEffort", "optional", 2)
SdWrite     == Ask(Address("directoryListing", null, null, 4), "bestEffort", "required", 1)
PluginWrite ==
    [Ask(NoKey, "bestEffort", "required", 1) EXCEPT !.delayed = TRUE, !.raw = TRUE]
SilentWrite == [Ask(NoKey, "bestEffort", "none", 1) EXCEPT !.cancellable = TRUE]

Mixes == {{SlotRead, StrictRead}, {SlotRead, MemoryQuery}, {StrictRead, MemoryQuery},
          {EnumRead, ValueRead, SilentWrite}, {SdWrite, PluginWrite, SilentWrite}}

MCKind == UNION Mixes

TrafficInit ==
    /\ \E mix \in Mixes : kind \in [Req -> mix]
    /\ Init
TrafficSpec == TrafficInit /\ [][Next]_vars

Symmetry == Permutations(Req)
=============================================================================
