-------------------------- MODULE MCCloseoutCodes --------------------------
(* Instances of CloseoutCodes for TLC. *)
EXTENDS CloseoutCodes, TLC

CONSTANTS m1, m2, k1, k2, k3

\* Servers and calls are interchangeable.
Interchangeable == Permutations({m1, m2}) \cup Permutations({k1, k2, k3})
=============================================================================
