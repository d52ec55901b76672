CONSTANTS
  Pipelines = {1, 2}
  Recordable = {1}
  Sources = {"ball", "pad"}
  Credits = 2
  Changes <- MCChanges
  Capacity = 4
  BatchSize = 3
  WholeSize = 2
  Maximum = 1
  Compiled <- MCCompiled
  MaxPresses = 1
  MaxEvents = 5
SPECIFICATION Spec
ACTION_CONSTRAINT Telling
INVARIANTS PressHeld SettingsWhole NothingStranded
PROPERTIES NumbersTrue DeltasDecode ReplayExact
CHECK_DEADLOCK FALSE
