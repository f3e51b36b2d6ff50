------------------------------- MODULE MCRole -------------------------------
(***************************************************************************)
(* Small instances of Role.                                                *)
(***************************************************************************)
EXTENDS Role, TLC

Interchangeable ==
    Permutations(Leader) \cup Permutations(Follower) \cup Permutations(Write)
    \cup Permutations(Promotion) \cup Permutations(Enlistment)
=============================================================================
