----------------------------- MODULE Positions -----------------------------
(***************************************************************************)
(* Where a store has got to.  A litekv.DBPosition is, for everything this  *)
(* server decides, a term and a sequence number: the rest of it (log       *)
(* number, offset) is opaque here, as it is to the server, which hands     *)
(* it back as a cookie.  A position names the NEXT record, so a store at   *)
(* seq s holds every record below s, and an empty store is at 1; the zero  *)
(* position is a store with nowhere to carry on from.                      *)
(***************************************************************************)
EXTENDS Integers

Position == [term : Nat, seq : Nat]

Zero == [term |-> 0, seq |-> 0]

\* acks.go, reaches: the term decides first, because a position of another
\* leader is not on this history; within a term, the sequence number.
reaches(acked, want) ==
    IF acked.term # want.term
    THEN acked.term > want.term
    ELSE acked.seq >= want.seq

\* controller.go, further: a strictly better candidate, term first.
further(a, b) ==
    IF a.term # b.term
    THEN a.term > b.term
    ELSE a.seq > b.seq

\* The later of two positions (a definition of the models, not of the code).
Later(a, b) == IF reaches(a, b) THEN a ELSE b
=============================================================================
