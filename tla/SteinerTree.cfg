CONSTANTS
  Bits = 9
  Turn = 16
  CnotWeight = 1
  RzWeight = 1
  LiftCap = 16
  Jobs <- TreeJobs
  None = None
SPECIFICATION Spec
INVARIANT Realises
