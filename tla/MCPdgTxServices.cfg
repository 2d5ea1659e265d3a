SPECIFICATION FairSpec
CONSTANTS
  a = a
  b = b
  p1 = p1
  p2 = p2
  u1 = u1
  u2 = u2
  Tx = {1, 2}
  Target = {1}
  Unit = {u1, u2}
  Content = {a, b}
  Absent = Absent
  Proc = {p1, p2}
  NoProc = NoProc
  NoTx = NoTx
  Goal <- ServicesGoal
  Origin <- ServicesOrigin
  UnitOf <- FileOfU2
  Probed = {u1}
  TxKeep = 2
  Outside = {}
  Flaky = {u2}
  Commands = {"recover", "abort"}
  Discipline = {"solo", "fresh"}
  LiveAtStart <- OneFileStart
  RunningAtStart <- AnyLevel
PROPERTIES
  RolledBackRestores
  CommittedHealthy
  LockIsFreed
CHECK_DEADLOCK FALSE
