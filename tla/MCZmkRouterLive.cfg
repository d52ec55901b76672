SPECIFICATION FairSpec
CONSTANTS
  Callers = {k1}
  Input = Input
  Work = Work
  Nobody = Nobody
  Pipelines = {0, 1}
  DefaultPipeline = 0
  NoPipeline = NoPipeline
  TopLayer = 1
  DefaultLayer = 0
  LayerRoute <- MCTwoLayerRoutes
  Capacity = 1
  Stages = {1}
  Intervals = {1}
  NoDeadline = NoDeadline
  MaxLag = 1
  MaxLate = 2
PROPERTY
  DueIsFlushed
