CONSTANTS
  c1 = c1
  c2 = c2
  v1 = v1
  zero = zero
  Callers <- MCCallers
  Answers <- MCAnswers
  MaxCalls = 2
  Operations = {op}
  Zero = zero
SPECIFICATION Spec
INVARIANTS
  TypeOK
  HandledOnce
  OwnAnswer
  ZeroMeansNoResult
PROPERTIES
  RemoteCallSpec
CHECK_DEADLOCK FALSE
