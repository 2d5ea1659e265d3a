SPECIFICATION BackgroundSpec
CONSTANTS
  w1 = w1
  w2 = w2
  Job = {1, 2}
  Web = {w1, w2}
  Nobody = Nobody
  NoJob = NoJob
  KindOf <- TwoKinds
  LaunchGrace = 1
  QueueLimit = 2
  OpTimeout <- ShortLimits
  RunLimit <- LongLimits
  MaxRecords = 1
  LegacyRuns = FALSE
  Import = {i1}
  Worker = {w1}
  NoImport = NoImport
  PreviewTTL = 0
  ClaimTTL = 2
  ImportKind = {"pdg"}
  Content = {a}
  MaxDeaths = 1
  Callback = {c1, c2}
  Main = Main
  MaxOpen = 2
  MaxMishaps = 2
  Recipient = {u1}
  Trouble = {A, B}
  Fine = Fine
  Unknown = Unknown
  MaxLosses = 2
  Source = {}
  Version = {v1}
  Pairs = 2
  MaxChanges = 1
  Peer = {p1, p2}
  Address = {a1}
  MaxWorkers = 1
  KdfSlots = 1
  LoginAttempts = 1
  AllAttempts = 2
  RateWindow = 1
  RateMapLimit = 1
  MaxAccepted = 3
  MaxClock = 1
  Domain = {}
  MaxEdits = 1
  MaxFaults = 2
  Discipline = {"restores", "removes"}
PROPERTIES
  JobsEnd
  ImportsCleaned
  PanelCloses
  HealthSettles
  AllReleased
  JournalSettles
