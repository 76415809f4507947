\* One of six components per behaviour, each on a small instance.
SPECIFICATION Spec
CONSTANTS
  Payload <- MCPayload
  Retries = 1
  MaxWrites = 2
  MaxLost = 1
  Handlers <- MCHandlers
  MaxFailures = 2
  SinkCaller = {p, q}
  Lengths <- MCLengths
  cmdChanBuffSize = 2
  maxUdpBytes = 3
  MaxCommands = 4
  MaxTicks = 1
  TagLists <- MCTagLists
  Excluded <- MCExcluded
  SplunkPump = {s1, s2}
  Blank = ""
  Torn = "torn"
  Settings <- MCSettings
  Traffic <- MCTraffic
  ScrapeLengths <- MCScrapes
  Atom = {"b", "c", "k", "s", "4567", "200", "code", "api", "path", "method", "client_id", "total"}
  KeyLists <- MCKeyLists
  Options <- MCOptions
  MaxRecordSize = 0
INVARIANTS
  HybridHonest
  SafeAlone
  StorageReachable
  SinkInOrder
  FilteredAlone
  MetricsFollow
  FiltersKeepApart
PROPERTIES
  SinkCallsReturn
CHECK_DEADLOCK FALSE
