\* All shapes of requests, three of which reach the store.
SPECIFICATION Spec
CONSTANTS
  None = None
  NotString = NotString
  Address4 = {"a4", "b4"}
  Address6 = {"a6"}
  Token = {"t"}
  Request <- Requests
  AddressTtl = 1
  ChallengeTtl = 2
  MaxTime = 1
  MaxRequests = 3
INVARIANTS TypeOK AcknowledgedHolds RequestsAreClear
CHECK_DEADLOCK FALSE
