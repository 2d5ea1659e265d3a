SPECIFICATION Spec
CONSTANTS
  a = a
  b = b
  p1 = p1
  p2 = p2
  u1 = u1
  u2 = u2
  Tx = {1, 2, 3}
  Target = {1, 2}
  Unit = {}
  Content = {a, b}
  Absent = Absent
  Proc = {p1, p2}
  NoProc = NoProc
  NoTx = NoTx
  Goal <- ChainGoal
  Origin <- ChainOrigin
  UnitOf <- NoUnits
  Probed = {}
  TxKeep = 1
  Outside = {}
  Flaky = {}
  Commands = {"recover"}
  Discipline = {"solo", "fresh"}
  LiveAtStart <- FilesStart
  RunningAtStart <- NoUnitsStart
SYMMETRY AnyProcess
PROPERTIES
  AtomicChange
CHECK_DEADLOCK FALSE
