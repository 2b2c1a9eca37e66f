SPECIFICATION MfaFairSpec
CONSTANTS
  Requests = {r1, r2}
  Secrets = {s1, s2}
  NoSecret = NoSecret
  Backups = {b1}
  BatchSize = 1
  Tokens = {t1}
  HasOAuth = TRUE
  MaxFaults = 1
INVARIANTS SerialSecretIsConfirmed SpendingIsBounded
PROPERTY EnrolledOwnerReturns
