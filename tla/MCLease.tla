------------------------------ MODULE MCLease ------------------------------
(***************************************************************************)
(* Small instances of Lease.                                               *)
(***************************************************************************)
EXTENDS Lease, TLC

Interchangeable == Permutations(Controller)
=============================================================================
