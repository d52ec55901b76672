CONSTANTS
  Pipelines = {0, 1, 2}
  DefaultPipeline = 0
  NoPipeline = NoPipeline
  Stages = {1, 2}
  Intervals = {1, 2}
  NoDeadline = NoDeadline
  Times <- MCTimes
SPECIFICATION Spec
INVARIANTS
  OneActive
  OnlyActiveWaits
PROPERTY
  RefusedRollsBack
