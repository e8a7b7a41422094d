------------------------ MODULE MCAuthorizationServers ------------------------
EXTENDS AuthorizationServers, TLC

CONSTANTS t1, t2, c1, c2, n1, n2, k1, k2, s1, s2, s3, u1, u2

Symmetric ==
  Permutations({t1, t2}) \cup Permutations({c1, c2}) \cup Permutations({k1, k2})
  \cup Permutations({n1, n2})

=============================================================================
