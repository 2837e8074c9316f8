CONSTANTS
  Bits = 9
  Turn = 16
  CnotWeight = 1
  RzWeight = 1
  LiftCap = 16
  Jobs <- MCJobs
  None = None
SPECIFICATION Spec
INVARIANTS Realises Accounted AlwaysAnswers OnTopology
