\* One search of up to three rows read in pages of two, two orders, a Stop button, lost answers.
SPECIFICATION ScreenFairSpec
CONSTANTS
  Families = {"ana1"}
  UserOf <- OneUser
  Keys = {}
  NoKey = "none"
  Bodies = {"x"}
  SlotsPerUser = 1
  IdleTTL = 1
  KeyTTL = 1
  MaxEntries = 1
  MaxRememberedExpired = 1
  ScanFaults = {FALSE}
  ScanSteps = 3
  MaxSearches = 1
  MaxTotal = 3
  Reader = "ana1"
  PageSize = 2
  Orders = {"-ts", "bytes"}
  ScanOrder = "-ts"
  Losses = {"status", "page", "cancel"}
INVARIANTS ScreenIsRight
PROPERTIES ReadsALog PollingEnds
