SPECIFICATION Spec
CONSTANTS
  Tenants = {t1, t2}
  NoTenant = NoTenant
  MaxPairs = 3
SYMMETRY HandoverSymmetry
CHECK_DEADLOCK FALSE
INVARIANTS EngineTokenNamesItsTenant CodeDeliversOnce
