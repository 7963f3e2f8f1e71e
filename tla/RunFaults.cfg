\* Every failure on the way of a start, reloads, and a store that remembers one key for two.
SPECIFICATION RunFairSpec
CONSTANTS
  Families = {"ana1"}
  UserOf <- OneUser
  Keys = {"x", "y"}
  NoKey = "none"
  Bodies = {"x", "y"}
  SlotsPerUser = 3
  IdleTTL = 2
  KeyTTL = 2
  MaxEntries = 1
  MaxRememberedExpired = 0
  ScanFaults = {FALSE}
  ScanSteps = 1
  MaxSearches = 2
  MaxTotal = 0
  Me = "ana1"
  Screens = {"t1"}
  Faults = {"delete", "post", "commit", "answer", "reload"}
INVARIANTS ForgottenInOrder
PROPERTIES LeakedSlotComesBack
