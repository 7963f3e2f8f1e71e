\* Rate windows of two buckets; and, apart, two overlapping requests of two sessions.
SPECIFICATION PlatformSpec
CONSTANTS
  Buckets = {"download", "estimate"}
  Callers = {"f1"}
  Limit <- Limits
  Window <- WindowTicks
  FixedRetry <- Fixed
  Second = 2
  MaxTracked = 1
  ForgetAfter = 6
  Emails = {"ana"}
  MaxFailures = 2
  LoginWindow = 3
  Families = {"f1", "f2"}
  Clients = {"web"}
  ClientOf <- SharedClient
  Profiles = {TRUE, FALSE}
  MaxCounters = 1
  RingSize = 2
  Anonymous = "anonymous"
  InFlight = {1, 2}
  MaxRequests = 3
INVARIANTS WindowsHold RecordsAreRight
PROPERTIES EveryRequestEnds
