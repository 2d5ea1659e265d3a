SPECIFICATION Spec
CONSTANTS
  a = a
  b = b
  p1 = p1
  p2 = p2
  u1 = u1
  u2 = u2
  Tx = {1}
  Target = {1}
  Unit = {}
  Content = {a, b}
  Absent = Absent
  Proc = {p1, p2}
  NoProc = NoProc
  NoTx = NoTx
  Goal <- CreateGoal
  Origin <- FromCli
  UnitOf <- NoUnit
  Probed = {}
  TxKeep = 1
  Outside = {}
  Flaky = {}
  Commands = {"apply"}
  Discipline = {"solo"}
  LiveAtStart <- NoFileStart
  RunningAtStart <- NoUnitsStart
PROPERTIES
  AbortedTouchedNothing
CHECK_DEADLOCK FALSE
