\* Live sockets, cases, hunts, imports and exports, each apart.
SPECIFICATION ServicesSpec
CONSTANTS
  Families = {"f1"}
  Tickets = {"t1", "t2"}
  Handshakes = {"h1", "h2"}
  TicketTTL = 1
  MaxResets = 1
  Sensors = {"hq", "branch"}
  ForeignSensor = "dc"
  RowsAt <- Rows
  Lag <- Lags
  Filters <- TwoFilters
  Offers <- TwoOffers
  Searches = {"s1"}
  QueueLimit = 2
  Burst = 1
  Heartbeat = 2
  PongDeadline = 1
  StatsInterval = 1
  RestartAfter = {3}
  MaxNow = 3
  MaxFrames = 2
  Editors = {"ana"}
  Titles <- FewNames
  Summaries = {"mine"}
  Sessions = {"s1"}
  Limits = {1, 2}
  MostListed = 2
  MaxListed = 5
  Interval = 2
  MaxCatchUp = 2
  Jumps = {2, 4}
  MaxCases = 3
  MaxEdits = 2
  MaxTime = 4
  MaxEras = 1
  Owners = {"ana", "ben"}
  HuntNames <- FewNames
  Queries = {"q"}
  MaxHunts = 2
  MaxHuntVersion = 2
  MaxHuntEras = 1
  Captures = {"a", "b", "big", "text"}
  UploadOffers <- SomeUploads
  NotCaptures = {"text"}
  SizeOf <- Sizes
  Seconds <- Times
  MaxUpload = 2
  Uploads = {1, 2}
  ImportKeys = {"k"}
  MaxAge = 2
  Queued = 0
  Duration = 2
  Lifetime = 2
  KeyLifetime = 3
  ExportKeys = {"k"}
  Downloads = {1, 2}
  MaxExports = 2
  MaxEdition = 2
INVARIANTS TicketSafety TagsNameHunts ImportSafety ExportSafety
PROPERTIES EndedIsClosed TapTellsAll DocumentsHold
\* A socket that closed and a bounded clock do no more.
CHECK_DEADLOCK FALSE
