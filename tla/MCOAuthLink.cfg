SPECIFICATION FairSpec
CONSTANTS
  Users = {u1, u2}
  NoUser = NoUser
  Emails = {e1, e2}
  Passwords = {w1}
  g1 = g1
  g2 = g2
  Identities = {g1, g2}
  Provider <- SameProvider
  Links = {l1, l2}
  Requests = {r1, r2}
  None = None
  MaxFaults = 1
CHECK_DEADLOCK FALSE
INVARIANTS LinkIsSpentOnce
PROPERTIES IdentitiesAreBound LinkingSucceeds
