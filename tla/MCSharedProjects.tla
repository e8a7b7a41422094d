--------------------------- MODULE MCSharedProjects ---------------------------
EXTENDS SharedProjects, TLC

CONSTANTS t1, t2, a1, a2, a3, a4, p1, p2

OwnerOpsHere == <<"records:write", "manage_profile">>
StandingHere == (p1 :> a1 @@ p2 :> a2)

\* The two owners change places with their profiles.
Swap      == (p1 :> p2 @@ p2 :> p1 @@ a1 :> a2 @@ a2 :> a1)
Symmetric == {f @@ g @@ h : f \in Permutations({t1, t2}), g \in Permutations({a3, a4}),
                            h \in {Swap, [v \in DOMAIN Swap |-> v]}}

=============================================================================
