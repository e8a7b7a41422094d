-------------------------- MODULE MCStoreApprovals --------------------------
(* Instances of StoreApprovals for TLC. *)
EXTENDS StoreApprovals, TLC

CONSTANTS q1, q2, q3, q4

\* Requests are interchangeable.
Interchangeable == Permutations({q1, q2, q3, q4})
=============================================================================
