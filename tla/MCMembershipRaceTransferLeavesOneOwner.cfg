SPECIFICATION Spec
CONSTANTS
  alice = alice
  bob = bob
  carol = carol
  p1 = p1
  p2 = p2
  p3 = p3
  p4 = p4
  Users <- ThreeUsers
  Founder = alice
  Requests <- FourRequests
  Kinds <- TransfersOnly
  Idle = Idle
SYMMETRY RequestSymmetry
CHECK_DEADLOCK FALSE
INVARIANT TransferLeavesOneOwner
