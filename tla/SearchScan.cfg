\* One search, windows of up to seven rows: the scan itself, fairly scheduled.
SPECIFICATION FairSpec
CONSTANTS
  Families = {"ana1"}
  UserOf <- OneUser
  Keys = {}
  NoKey = "none"
  Bodies = {"x"}
  SlotsPerUser = 1
  IdleTTL = 2
  KeyTTL = 1
  MaxEntries = 1
  MaxRememberedExpired = 0
  ScanFaults = {TRUE, FALSE}
  ScanSteps = 3
  MaxSearches = 1
  MaxTotal = 7
INVARIANTS CountsAgree
PROPERTIES FinishedIsFinal ScansProgress
