CONSTANTS
  Bits = 9
  Turn = 16
  JointCap = 5
  Widths = {2}
  Gates <- TiesGates
  Rewrites <- TiesRewrites
  Depth <- TiesDepth
  None = None
SPECIFICATION Spec
INVARIANT InternEqual
CHECK_DEADLOCK FALSE
