SPECIFICATION Spec
CONSTANTS
  t1 = t1  t2 = t2  a1 = a1  a2 = a2  a3 = a3  a4 = a4  p1 = p1  p2 = p2
  Threads = {t1, t2}
  Admin = admin
  Principals = {admin, a1, a2, a3, a4}
  Founders = {a1, a2}
  Profiles = {p1, p2}
  Anywhere = Anywhere
  Keys = {k1}
  Invites = {i1}
  OwnerOps <- OwnerOpsHere
  Standing <- StandingHere
  MaxProfiles = 1
  Projects = {x1}
  Running = {x1}
  MaxReqs = 3
  MaxFaults = 1
SYMMETRY Symmetric
INVARIANTS TypeOK InviteAdmitsOne LimitNeedsOverlap NothingOutlivesProfile EmptyProjectIsNoticed
PROPERTIES MembersAreNotEvicted
CHECK_DEADLOCK FALSE
