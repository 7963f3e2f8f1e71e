SPECIFICATION EvidenceSpec
CONSTANTS
  FieldDefs <- FewFields
  Host <- FewHosts
  Country <- FewCountries
  MaxInValues = 2
  MaxWildcards = 1
  MaxDepth = 3
  MaxConditions = 3
  Phrases <- FewPhrases
  Openers <- MoreOpeners
  MaxPhrases = 5
  RowStarts <- FewRowStarts
  ValueChars <- FewValueChars
  MaxRowChars = 8
  BuiltInSensors <- TwoSensors
  ImportNames <- TwoImports
  SensorIndex <- TwoIndexes
  Lag <- TwoLags
  Scripted = "branch"
  Drafts <- FewDrafts
  Outages <- OneOutage
  BeaconStart = 5
  BeaconGap <- FewGaps
  FiresFrom = 1
  DedupeTime = 3
  BeaconDraft <- OneBeacon
  Delay <- FewDelays
  MinuteTime = 2
  HourTime = 4
  DataStart = 4
  Epoch = 12
  MaxNow = 14
  MinuteSpan = 16
  OrdinalSpan = 8
  FirstImportIndex = 3
  ImportHorizon = 15
  Captures <- TwoCaptures
  ImportDraft <- ImportDrafts
  Retention = 4
  PcapCacheSize = 1
  RelatedPage = 1
  RelatedWindows = {5}
  AskedIds <- FewIds
  SampleTarget = 4
  Denied <- TwoRoles
  Lagging = {"branch"}
  MaxWindow = 9
  MaxBuckets = 5
  MaxPackets = 12
  Mss = 2
  SeqSpan = 16
  StepLimit = 3000
  Sessions <- FewSessions
  FlowRows <- FewFlowRows
  Widths = {2, 3}
  Ranges <- FewRanges
  MaxSamples = 4
  FlowWeights = {2, 3}
  Bodies <- FewBodies
  Sensitive <- FewSensitive
  LowerCase <- FewLowerCase
  Secrets = {"sid", "sid2", "lang"}
  Bytes = {0, 1, 2, 3}
  Magics <- FewMagics
  HeaderSize = 3
  MaxRecord = 2
  MaxUploadBytes = 8
  MaxChunk = 2
  Ordinary <- FewOrdinary
  BlockTime = 6
  LocalHour <- FewLocalHours
  Office = "hq"
  DataHall = "dc"
  ScanHours = {2}
  ScanTargets = 2
  ScanPorts = 2
  ScanBegin = 3
  VendorHosts <- TwoVendors
  VendorDetectors = {"ws1"}
  VendorAnchor <- FewAnchors
  VendorPeriod = 4
  VendorSlip <- FewSlips
  BackupHours = {1}
  BackupsPerHour = 2
  Slots <- FewSlots
  Staged <- FewStaged
  SensorOutages <- BranchOut
  FewestMarks = 3
INVARIANTS CaptureIsOne RowsAddUp PacketsAsListed ScanReadsTheFile TrafficIsWhole
PROPERTIES QueriesHold
CHECK_DEADLOCK FALSE
