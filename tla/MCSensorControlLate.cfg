SPECIFICATION Spec
CONSTANTS
  Declared <- MCDeclared
  Requests = {2, 6, 9}
  DefaultCpi = 1
  SeqMax = 3
  FieldSize = 4
  MaxRequests = 5
  MaxBoots = 1
  Prompt = FALSE
INVARIANT
  AnswerIsOwn
CHECK_DEADLOCK FALSE
