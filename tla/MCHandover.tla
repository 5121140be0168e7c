------------------------------ MODULE MCHandover ------------------------------
(* One strict read of a slot that the disposed manager's caller also reads. *)
EXTENDS SchedulerHandover

CONSTANTS r1, null

MCSlots == {0}
MCNothing == {}
MCOldKey == Address("algorithm", 0, null, null)

MCKind ==
    {[key |-> MCOldKey, policy |-> "rejectAmbiguousResponse", expect |-> "required",
      retries |-> 1, delayed |-> TRUE, cancellable |-> TRUE, raw |-> FALSE]}
=============================================================================
