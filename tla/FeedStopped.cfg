SPECIFICATION FeedSpec
CONSTANTS
  Families = {ana}
  Streams = {s1}
  MaxSeq = 2
  Wants <- ShowsAll
  RingSize = 1
  QueueSize = 1
  WireSize = 2
  Me = ana
  Tabs = {t1}
  MaxCuts = 0
INVARIANT OneLiveFeed
