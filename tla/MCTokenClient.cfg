SPECIFICATION TCFairSpec
CONSTANTS
  Calls = {c1, c2}
  TokenPairs = {p1, p2, p3}
  None = None
  MaxFaults = 1
  MaxOpen = 1
INVARIANTS SerialTabKeepsSession SerialLogoutIsComplete
PROPERTY DeadSessionIsLeft
