SPECIFICATION Spec
CONSTANTS
  alice = alice
  root = root
  g1 = g1
  g2 = g2
  g3 = g3
  Users <- AliceAndRoot
  Superusers <- JustRoot
  Grants <- ThreeGrants
  NoUser = NoUser
  NoSession = NoSession
  MaxPassword <- AliceOneRootTwo
  MaxFaults = 1
SYMMETRY GrantSymmetry
INVARIANTS
  SingleSession
  SessionsMirrorTokens
  LiveTokensAreCurrent
  ReplayExact
  RevokedStaysUnusable
PROPERTIES
  ForcedResetByLink
  ChainsAreKept
