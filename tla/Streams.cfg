SPECIFICATION WaySpec
CONSTANTS
  Families = {ana}
  Streams = {s1, s2}
  MaxSeq = 3
  Wants <- ShowsTwo
  RingSize = 2
  QueueSize = 1
  WireSize = 2
  LastSeq = 3
  Wanted = {1, 2, 3}
  Tabs = {t1}
  Users = {"ana", "ben"}
  Nobody = "nobody"
  Me = "ana"
  Sees <- BothSee
  SeedLimit = 1
  ListLimit = 2
SYMMETRY StreamSymmetry
INVARIANTS StreamsAreWhole RingIsContiguous HooksCover ListsAreWhole
