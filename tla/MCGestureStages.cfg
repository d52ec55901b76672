SPECIFICATION Spec
CONSTANTS
  WindowMs = 3
  EngageRatio = 150
  ReleaseRatio = 90
  IntentActivation = 2
  GateActivation = 2
  CoherencePercent = 70
  QualificationMs = 2
  GateIdleMs = 3
  Chains = {"cursor", "scroll", "text"}
  Motions <- MCMotions
  SuppressMs = 2
  IntentIdleMs = 2
  Settings <- MCSettings
  BatchMs = 2
  NavIdleMs = 3
  Threshold = 2
  Scale = 1
  Unit = 2
  HidMax = 1
  Forever = 4
  MaxHeld = 2
  MaxEnergy = 4
  MaxWait = 1
  Prompt = TRUE
INVARIANTS SharedVerdict HeldIsTimed EvidenceIsPending MotionOwed
