SPECIFICATION Spec
CONSTANTS
  a = a
  b = b
  p1 = p1
  p2 = p2
  u1 = u1
  u2 = u2
  Tx = {1}
  Target = {1}
  Unit = {}
  Content = {a, b}
  Absent = Absent
  Proc = {p1, p2}
  NoProc = NoProc
  NoTx = NoTx
  Goal <- CreateGoal
  Origin <- FromApi
  UnitOf <- NoUnit
  Probed = {}
  TxKeep = 1
  Outside = {}
  Flaky = {}
  Commands = {"recover"}
  Discipline = {}
  LiveAtStart <- NoFileStart
  RunningAtStart <- NoUnitsStart
PROPERTIES
  FinalIsFinal
CHECK_DEADLOCK FALSE
