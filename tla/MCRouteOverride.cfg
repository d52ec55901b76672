SPECIFICATION TableSpec
CONSTANTS
  Positions = {1, 2, 3}
  Pipelines = {1, 2}
  Capacity = 2
  NoPipeline = NoPipeline
  MaxOrder = 5
INVARIANTS HeldOnce SelectedIsNewest
PROPERTY PrecedenceSpec
