SPECIFICATION Spec
CONSTANTS
  alice = alice
  bob = bob
  p1 = p1
  p2 = p2
  p3 = p3
  Users <- TwoUsers
  Requests <- ThreeRequests
  Idle = Idle
SYMMETRY RequestSymmetry
CHECK_DEADLOCK FALSE
INVARIANTS
  SerialAccountsAreSafe
  RevocationReachesKnown
PROPERTY SerialRequestsAreAtomic
