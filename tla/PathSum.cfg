CONSTANTS
  Bits = 9
  Turn = 16
  JointCap = 5
  Widths = {1, 2}
  Gates <- MCGates
  Rewrites <- MCRewrites
  Depth <- MCDepth
  None = None
SPECIFICATION Spec
INVARIANTS Represents Reduced InternEqual
PROPERTY ReduceEnds
CHECK_DEADLOCK FALSE
