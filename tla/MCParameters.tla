----------------------------- MODULE MCParameters -----------------------------
(***************************************************************************)
(* Editing and polling of parameters.  A behaviour is one of the two, the  *)
(* other rests: they share the state the cubit shows, but polling takes    *)
(* over the value of one reply at a time and awaits nothing in between.    *)
(* A textual and a plain parameter of one slot are edited; a mapped one is *)
(* polled, and polling is switched on up to three times.                   *)
(***************************************************************************)
EXTENDS ParameterEdit, Polling

CONSTANTS c1, c2, s1

VARIABLE editing

MCSlotOf == [c \in Cell |-> s1]

bothVars == <<editing, vars, pollVars>>

BothInit == editing \in BOOLEAN /\ Init /\ pollInit

Edits(A) == editing /\ A /\ UNCHANGED <<editing, pollVars>>
Polls(A) == ~editing /\ A /\ UNCHANGED <<editing, vars>>

(***************************************************************************)
(* The fairness of FairSpec and of pollFairSpec, for the one that moves.   *)
(***************************************************************************)
BothSpec ==
    /\ BothInit /\ [][Edits(Next) \/ Polls(pollNext)]_bothVars
    /\ WF_bothVars(Edits(ProcessNext)) /\ WF_bothVars(Edits(Served))
    /\ \A c \in Polled :
        /\ WF_bothVars(Polls(Settles(c))) /\ WF_bothVars(Polls(Wakes(c)))
        /\ SF_bothVars(Polls(DeviceReads(c))) /\ SF_bothVars(Polls(Replies(c)))

\* Every variable of both has its type.
BothTypeOK == TypeOK /\ pollTypeOK
=============================================================================
