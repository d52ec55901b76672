SPECIFICATION Spec
CONSTANTS
  Declared <- MCDeclared
  Requests = {2, 6, 9}
  DefaultCpi = 1
  SeqMax = 3
  FieldSize = 4
  MaxRequests = 5
  MaxBoots = 1
  Prompt = TRUE
INVARIANTS
  AnswerIsOwn
  KnownIsApplied
  NearestApplied
PROPERTY
  OwnAnswerTaken
CHECK_DEADLOCK FALSE
