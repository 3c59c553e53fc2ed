SPECIFICATION BoundedSpec
CONSTANTS
  Registry <- FourComponents
  Inbox <- Arriving
  Token <- Strings
  Hash = {"source", "boot"}
  Skew = 1
  Null = Null
  Files <- TheFiles
  NodeName = {"rig"}
  SheetName = {"sheet", "rig"}
  ImportName = {"sheet.json"}
  TimeZone = {"UTC", "Far/Away"}
  Value <- RigWords
  Unset = Unset
  Writings <- TheWritings
  MemberLists <- TheLists
  Letter = {"a", "b"}
  Slug = {"sheet", "mine", "other", "unresolved", "imported-xmrig", "wallet"}
  Host = {"pool", "other"}
  CoinName = {"XMR", "other"}
  NativeName = {"sheet", "rig", "sheet.json"}
  Wrong = Wrong
  Absent = Absent
  Refused = Refused
  Installed = {"UTC"}
  Overrides <- TheOverrides
  NativeSheets <- TheSheets
  Envelopes <- TheEnvelopes
  Identities <- TheIdentities
  Earlier <- TheEarlier
  Limit = 3
  Pipe = 1
  Programs <- ThePrograms
  None = None
  Processes <- TheProcesses
  Pids = {1,2}
  Configurations <- TheConfigurations
  ExplicitConfig = None
  ExplicitExecutable = FALSE
  ProbeVersion = TRUE
  Addresses <- TheAddresses
  LocalHost <- Resolutions
  ResponseLimit = 2
INVARIANTS
  ReadersTypeOK
  StoredIsReadable NothingInTheAgentsWords EveryComponentOnce
  ReadFaithfully ReadsWhatIsWritten OnlyCommasAdded
  KeptSheetReadsBack PolicyTakesEffect PoolsAsWritten RevisionIsCoherent
  VersionIsWhole SignalsReachTheProbeOnly TokenStaysLocal
PROPERTIES InspectionEnds
CHECK_DEADLOCK FALSE
