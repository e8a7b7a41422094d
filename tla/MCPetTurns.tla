----------------------------- MODULE MCPetTurns -----------------------------
(* Instances of PetTurns for TLC. *)
EXTENDS PetTurns, TLC

CONSTANTS p1, p2, s1, s2, c1, c2, d1, d2

OneDeviceOwns == [c \in Convs |-> d1]
TwoDevicesOwn == c1 :> d1 @@ c2 :> d2

\* Processes and submissions are interchangeable.
TwoSubs == Permutations({s1, s2})
TwoProcsTwoSubs == Permutations({p1, p2}) \cup Permutations({s1, s2})
=============================================================================

