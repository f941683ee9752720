SPECIFICATION FairSpec
CONSTANTS
  Everys = {0, 1, 2, 3}
  Totals = {1, 4, 5}
  Timeouts = {0, 2}
  MaxTime = 12
INVARIANTS TypeOK RateBounded AtMostOneLate PromptSendKeepsWindow
PROPERTIES NoBurst PollEnds
CHECK_DEADLOCK FALSE
