CONSTANTS
  a = a
  b = b
  x = x
  none = none
  Callers <- MCCallers
  Options <- MCOptions
  MaxCalls = 3
  MaxResults = 2
  Moves <- MCMoves
  Refs = {x}
  NoRef = none
SPECIFICATION FairSpec
INVARIANTS
  TypeOK
  NothingSentUnasked
  PreviewIsWhatIsSent
  SubmittedOnce
  VerdictIsTrue
  AdviceIsSound
  PollsItsOwn
PROPERTIES
  SubmissionSpec
  RunsEnd
CHECK_DEADLOCK FALSE
