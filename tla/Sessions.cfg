\* One browser session beside another client: rotation, sweeping, revocation, lost answers; apart from it, every log of three records.
SPECIFICATION SessionsSpec
CONSTANTS
  Users = {"ana"}
  Watchers = {"stream"}
  AccessTTLs = {1, 2}
  RefreshIdle = 2
  RefreshMax = 2
  MaxFamilies = 2
  MaxTokens = 3
  MaxAge = 5
  Sids = {"tab"}
  Skew = 1
  Requests <- Traffic
  Events <- StreamEvents
  RefreshFlight = 2
  LogoutGrace = 1
  DuplicateWindow = 2
  AbandonedAfter = 1
  Retry4xxWindow = 2
  DedupeWindow = 1
  DownloadWindow = 2
  SubscribeWithin = 1
  SseMinGap = 2
  EnrichWindow = 1
  Calm = 2
  Restless = 1
  Tolerated = 2
  Burst = 3
  Resumed = 95
  HalfResumed = 50
  MaxLimit = 500
  MaxLog = 3
  MaxGap = 2
INVARIANTS TokenSafety SessionSafety
PROPERTIES TokensStaySpent ReportIsFair
CHECK_DEADLOCK FALSE
