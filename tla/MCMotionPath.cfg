SPECIFICATION Spec
CONSTANTS
  Axes = {"x"}
  Values = {1}
  AxisMin <- MCAxisMin
  AxisMax = 1
  Modulus = 3
  Span16 = 4
  Quantum = 2
  Saturated = 2
  Cpis = {c400, c800}
  MaxTime = 3
  MaxFrames = 5
  MaxQueue = 2
  MaxLink = 2
  MaxSum = 2
  MaxRepeats = 1
SYMMETRY Labels
INVARIANTS OneLabel MotionConserved
PROPERTIES GapsShow SpanIsTime
