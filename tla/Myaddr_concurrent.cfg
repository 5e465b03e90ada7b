\* Two requests at a time over two names, any store call may fail.
SPECIFICATION Spec
CONSTANTS
  n1 = n1
  n2 = n2
  h1 = h1
  h2 = h2
  h3 = h3
  r1 = r1
  r2 = r2
  None = None
  Name = {n1, n2}
  Key = {h1, h2}
  Req = {r1, r2}
  ChallengeTtl = 1
  PendingTtl = 1
  AddressTtl = 2
  RegistrationTtl = 3
  MaxTime = 1
  MaxRequests = 4
  Instant = FALSE
  MayFail = TRUE
SYMMETRY Symmetric
INVARIANTS TypeOK KeysStayWithTheirName LastsAsLongAsShown
CHECK_DEADLOCK FALSE
