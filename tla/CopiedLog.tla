----------------------------- MODULE CopiedLog -----------------------------
(***************************************************************************)
(* What semi-synchronous replication promises a client (server/acks.go;    *)
(* README, "Semi-synchronous replication"): a log and its copies.  A copy  *)
(* only ever moves forward along the log, a write is told 204 only while   *)
(* as many copies as were asked for hold it, and what a write was told is  *)
(* final.                                                                  *)
(***************************************************************************)
EXTENDS Positions, FiniteSets

CONSTANTS
    Node,   \* who keeps a copy
    Write,  \* the writes of clients
    Need,   \* copies behind a 204
    None    \* no place yet

VARIABLES
    end,    \* the position after the last record of the log
    copy,   \* node -> the position after the last record it has
    place,  \* write -> the position it has to reach
    told    \* write -> its status, 0 while there is none

Init ==
    /\ end \in Position
    /\ copy \in [Node -> Position]
    /\ place = [w \in Write |-> None]
    /\ told = [w \in Write |-> 0]

Append ==
    /\ end' = [end EXCEPT !.seq = @ + 1]
    /\ UNCHANGED <<copy, place, told>>

Copy(n) ==
    /\ \E s \in 0 .. end.seq : copy' = [copy EXCEPT ![n] = [end EXCEPT !.seq = s]]
    /\ reaches(copy'[n], copy[n])
    /\ UNCHANGED <<end, place, told>>

Place(w) ==
    /\ place[w] = None
    /\ told[w] = 0
    /\ place' = [place EXCEPT ![w] = end]
    /\ told' \in {told} \cup (IF Need = 0 THEN {[told EXCEPT ![w] = 204]} ELSE {})
    /\ UNCHANGED <<end, copy>>

\* The nodes whose copies hold a write.
holding(w) == {n \in Node : reaches(copy[n], place[w])}

Tell(w) ==
    /\ told[w] = 0
    /\ \/ told' = [told EXCEPT ![w] = 409] /\ place[w] = None
       \/ told' = [told EXCEPT ![w] = 202] /\ place[w] # None
       \/ /\ told' = [told EXCEPT ![w] = 204] /\ place[w] # None
          /\ Cardinality(holding(w)) >= Need
    /\ UNCHANGED <<end, copy, place>>

Next ==
    \/ Append
    \/ \E n \in Node : Copy(n)
    \/ \E w \in Write : Place(w) \/ Tell(w)

Spec == Init /\ [][Next]_<<end, copy, place, told>>
=============================================================================
