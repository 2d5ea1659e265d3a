SPECIFICATION Spec
CONSTANTS
  a = a
  b = b
  p1 = p1
  p2 = p2
  u1 = u1
  u2 = u2
  Tx = {1, 2}
  Target = {1, 2}
  Unit = {}
  Content = {a, b}
  Absent = Absent
  Proc = {p1, p2}
  NoProc = NoProc
  NoTx = NoTx
  Goal <- FilesGoal
  Origin <- FilesOrigin
  UnitOf <- NoUnits
  Probed = {}
  TxKeep = 1
  Outside = {1}
  Flaky = {}
  Commands = {"apply", "recover", "abort"}
  Discipline = {"solo", "fresh"}
  LiveAtStart <- FilesStart
  RunningAtStart <- NoUnitsStart
SYMMETRY AnyProcess
INVARIANTS
  TypeOK
  SingleInFlight
  Recoverable
PROPERTIES
  LegalTransitions
  NoLostUpdate
  RecoverKeepsEdits
  CommittedAsPlanned
