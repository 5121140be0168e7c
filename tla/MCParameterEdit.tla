-------------------- MODULE MCParameterEdit --------------------
(* A textual and a plain parameter of one slot. *)
EXTENDS ParameterEdit

CONSTANTS c1, c2, s1

MCSlotOf == [c \in Cell |-> s1]
=============================================================================
