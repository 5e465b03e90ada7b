\* One request at a time, none fails, the clock stands meanwhile.
SPECIFICATION Spec
CONSTANTS
  n1 = n1
  n2 = n2
  h1 = h1
  h2 = h2
  h3 = h3
  r1 = r1
  r2 = r2
  None = None
  Name = {n1}
  Key = {h1, h2}
  Req = {r1}
  ChallengeTtl = 1
  PendingTtl = 1
  AddressTtl = 2
  RegistrationTtl = 3
  MaxTime = 4
  MaxRequests = 8
  Instant = TRUE
  MayFail = FALSE
SYMMETRY Symmetric
INVARIANTS OneKeyPerName ServedForTheHolder DeletedForGood
CHECK_DEADLOCK FALSE
