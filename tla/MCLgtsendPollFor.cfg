CONSTANTS
  a = a
  b = b
  x = x
  none = none
  Callers <- MCCallers
  Options <- MCPolls
  MaxCalls = 3
  MaxResults = 2
  Moves <- MCMoves
  Refs = {x}
  NoRef = none
SPECIFICATION Spec
INVARIANT PollForIsHonoured
CHECK_DEADLOCK FALSE
