----------------------------- MODULE MCSemiSync -----------------------------
(***************************************************************************)
(* Small instances of SemiSync: where the followers' stores may start.     *)
(***************************************************************************)
EXTENDS SemiSync, TLC

\* A store with nowhere to carry on from, and one at the leader's position.
FreshOrCurrent == {Zero, [term |-> Term, seq |-> FirstSeq]}

\* An empty store, one that is behind, and one left by a later leader, which
\* fences this one.
AnyHistory == {Zero, [term |-> Term, seq |-> FirstSeq - 1],
               [term |-> Term + 1, seq |-> FirstSeq]}

\* Followers that hold what the leader holds.
Current == {[term |-> Term, seq |-> FirstSeq]}

\* Only empty stores.
Fresh == {Zero}

Interchangeable == Permutations(Conn) \cup Permutations(Id) \cup Permutations(Write)
=============================================================================
