SPECIFICATION BackgroundSafety
CONSTANTS
  w1 = w1
  w2 = w2
  Job = {1, 2}
  Web = {w1, w2}
  Nobody = Nobody
  NoJob = NoJob
  KindOf <- TwoKinds
  LaunchGrace = 1
  QueueLimit = 2
  OpTimeout <- ShortLimits
  RunLimit <- LongLimits
  MaxRecords = 1
  LegacyRuns = TRUE
  Import = {i1}
  Worker = {w1, w2}
  NoImport = NoImport
  PreviewTTL = 0
  ClaimTTL = 2
  ImportKind = {"mosdns", "mihomo", "pdg"}
  Content = {a, b}
  MaxDeaths = 1
  Callback = {c1, c2}
  Main = Main
  MaxOpen = 3
  MaxMishaps = 3
  Recipient = {u1, u2}
  Trouble = {A, B}
  Fine = Fine
  Unknown = Unknown
  MaxLosses = 2
  Source = {"r"}
  Version = {v1, v2}
  Pairs = 1
  MaxChanges = 2
  Peer = {p1, p2}
  Address = {a1, a2}
  MaxWorkers = 2
  KdfSlots = 1
  LoginAttempts = 2
  AllAttempts = 3
  RateWindow = 1
  RateMapLimit = 1
  MaxAccepted = 4
  MaxClock = 2
  Domain = {"d"}
  MaxEdits = 1
  MaxFaults = 2
  Discipline = {"restores", "removes"}
INVARIANTS
  Exclusive
  OperationIsRecorded
  RecordHasUpload
  CancelledIsGone
  JobHasItsFiles
  PanelWatched
  StateReadable
  DeliveredIsRead
  ArchiveOfOneMoment
  GuessesBounded
  EveryDiskBoots
  NeverMisdirected
PROPERTIES
  Settled
  AppliedAsPreviewed
  MessagesFit
  SuccessIsRunning
SYMMETRY Interchangeable
