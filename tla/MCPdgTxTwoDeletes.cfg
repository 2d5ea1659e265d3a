SPECIFICATION Spec
CONSTANTS
  a = a
  b = b
  p1 = p1
  p2 = p2
  u1 = u1
  u2 = u2
  Tx = {1, 2}
  Target = {1}
  Unit = {}
  Content = {a, b}
  Absent = Absent
  Proc = {p1, p2}
  NoProc = NoProc
  NoTx = NoTx
  Goal <- DeleteGoal
  Origin <- BothFromApi
  UnitOf <- NoUnit
  Probed = {}
  TxKeep = 1
  Outside = {}
  Flaky = {}
  Commands = {}
  Discipline = {"solo", "fresh"}
  LiveAtStart <- OneFileStart
  RunningAtStart <- NoUnitsStart
PROPERTIES
  CommittedAsPlanned
CHECK_DEADLOCK FALSE
