SPECIFICATION FairSpec
CONSTANTS
  Requests = {r1, r2}
  Codes = {c1, c2, c3}
  NoCode = NoCode
  MaxFaults = 1
INVARIANTS SerialGuessesAreBounded CounterCountsGuesses
PROPERTY EventuallyVerified
CHECK_DEADLOCK FALSE
