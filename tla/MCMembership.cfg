SPECIFICATION Spec
CONSTANTS
  alice = alice
  bob = bob
  carol = carol
  Users <- ThreeUsers
  Nobody = Nobody
  JuniorRoles <- OneJuniorRole
  MemberCap = 2
  MaxInvites = 2
SYMMETRY UserSymmetry
INVARIANTS
  OneOwner
  TransferNamesOwner
PROPERTIES
  LinkAdmitsOnce
  StandingBoundsActions
  OwnershipIsKept
