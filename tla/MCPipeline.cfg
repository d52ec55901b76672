CONSTANTS
  StageCount = 3
  Budget = 6
  MaxEmit = 2
  Period = 4
  Intervals = {1}
SPECIFICATION Spec
INVARIANTS
  ImmediateOrder
  NothingLost
  NoReentry
  CallsOnlyLive
  InactiveIsReset
  FlushDrains
  SleepMissesNothing
PROPERTY
  FailureStops
