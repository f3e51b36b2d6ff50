------------------------------ MODULE Handover ------------------------------
(***************************************************************************)
(* What the Lease promises (cmd/litekv-controller/lease.go): one controller*)
(* at a time may act, and it has stopped before another may.               *)
(***************************************************************************)
CONSTANT Controller

VARIABLE acting  \* the controllers that may act

Init == acting = {}

Take(c) == acting = {} /\ acting' = {c}

\* Renewed too late, stopped or died.
Leave(c) == acting = {c} /\ acting' = {}

Next == \E c \in Controller : Take(c) \/ Leave(c)

Spec == Init /\ [][Next]_acting
=============================================================================
