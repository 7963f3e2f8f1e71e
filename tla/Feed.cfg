SPECIFICATION FeedFairSpec
CONSTANTS
  Families = {ana}
  Streams = {s1}
  MaxSeq = 2
  Wants <- ShowsAll
  RingSize = 1
  QueueSize = 1
  WireSize = 1
  Me = ana
  Tabs = {t1}
  MaxCuts = 1
INVARIANTS FeedIsWhole
PROPERTIES FeedKeepsItsPromise
