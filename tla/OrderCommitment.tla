---------------------------- MODULE OrderCommitment ----------------------------
(***************************************************************************)
(* What an order promises the warehouse: while it is under review it       *)
(* claims nothing; its approval claims every line in full, at once; and    *)
(* the claim ends, once and for good, when the order is closed.            *)
(***************************************************************************)
EXTENDS Integers

CONSTANTS Orders, Products

VARIABLES
    phase,     \* phase[o]: "REVIEW", "COMMITTED" or "CLOSED"
    ordered,   \* ordered[o][p]: the quantity of p on the order
    claim      \* claim[o][p]: the quantity of p the order claims

Init ==
    /\ phase = [o \in Orders |-> "REVIEW"]
    /\ ordered \in [Orders -> [Products -> Nat]]
    /\ claim = [o \in Orders |-> [p \in Products |-> 0]]

Commit(o) ==
    /\ phase[o] = "REVIEW"
    /\ phase' = [phase EXCEPT ![o] = "COMMITTED"]
    /\ claim' = [claim EXCEPT ![o] = ordered[o]]
    /\ UNCHANGED ordered

Close(o) ==
    /\ phase[o] \in {"REVIEW", "COMMITTED"}
    /\ phase' = [phase EXCEPT ![o] = "CLOSED"]
    /\ claim' = [claim EXCEPT ![o] = [p \in Products |-> 0]]
    /\ UNCHANGED ordered

Next == \E o \in Orders : Commit(o) \/ Close(o)

Spec == Init /\ [][Next]_<<phase, ordered, claim>>
================================================================================
