SPECIFICATION FairSpec
CONSTANTS
  s1 = s1
  s2 = s2
  Subs <- TwoSubs
  Old = s1
  NoSub = NoSub
  MaxEvents = 4
  MaxJobs = 2
  MaxFaults = 1
CHECK_DEADLOCK FALSE
INVARIANTS
  AppliedOnce
  SyncedInOrder
PROPERTY EventsTakeEffect
