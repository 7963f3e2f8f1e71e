\* Two users, one with two sessions, a key and two bodies: slots, retries, replays, expiry.
SPECIFICATION Spec
CONSTANTS
  Families = {"ana1", "ana2", "ben1"}
  UserOf <- TwoUsers
  Keys = {"k"}
  NoKey = "none"
  Bodies = {x, y}
  SlotsPerUser = 1
  IdleTTL = 2
  KeyTTL = 2
  MaxEntries = 3
  MaxRememberedExpired = 1
  ScanFaults = {FALSE}
  ScanSteps = 1
  MaxSearches = 2
  MaxTotal = 0
INVARIANTS TypeOK SlotBound IdsNeverReused ScansFollowJobs AnswersAreRight
SYMMETRY InterchangeableBodies
