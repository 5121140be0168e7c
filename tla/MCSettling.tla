------------------------------ MODULE MCSettling ------------------------------
(***************************************************************************)
(* A retried read, a single-attempt cancellable strict read of the same    *)
(* slot and a zero-delay optional read, without symmetry: for liveness.    *)
(***************************************************************************)
EXTENDS MessageScheduler

CONSTANTS r1, r2, null

MCSlots == {0}
MCParams == {1}
MCOps == {}

MCKind ==
    {[key |-> Address("algorithm", 0, null, null), policy |-> "bestEffort",
      expect |-> "required", retries |-> 2, delayed |-> TRUE,
      cancellable |-> FALSE, raw |-> FALSE],
     [key |-> Address("algorithm", 0, null, null),
      policy |-> "rejectAmbiguousResponse",
      expect |-> "required", retries |-> 1, delayed |-> TRUE,
      cancellable |-> TRUE, raw |-> FALSE],
     [key |-> Address("parameterValue", 0, 1, null), policy |-> "bestEffort",
      expect |-> "optional", retries |-> 2, delayed |-> FALSE,
      cancellable |-> FALSE, raw |-> FALSE]}
=============================================================================
