SPECIFICATION PlansSpec
CONSTANTS
  Plans = {p1}
  Tenants = {t1}
  Requests = {r1, r2}
  None = None
  Unborn = Unborn
  Deleted = Deleted
  Fees = {0, 1}
  MaxPrices = 6
  MaxMishaps = 1
SYMMETRY PlansSymmetry
CHECK_DEADLOCK FALSE
INVARIANTS PricesFollowFees NothingElseIsSold SessionsFollowFees
