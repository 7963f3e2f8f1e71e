\* Two tabs, nothing fails: slots are not leaked.
SPECIFICATION RunSpec
CONSTANTS
  Families = {"ana1"}
  UserOf <- OneUser
  Keys = {x, y}
  NoKey = "none"
  Bodies = {x, y}
  SlotsPerUser = 3
  IdleTTL = 1
  KeyTTL = 1
  MaxEntries = 2
  MaxRememberedExpired = 0
  ScanFaults = {FALSE}
  ScanSteps = 1
  MaxSearches = 3
  MaxTotal = 0
  Me = "ana1"
  Screens = {t1, t2}
  Faults = {}
INVARIANTS TabsKeepTheirSlots
SYMMETRY TabAndQuerySymmetry
