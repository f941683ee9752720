CONSTANTS
  endpoint = endpoint
  user = user
  other = other
  x = x
  y = y
  Keys <- MCKeys
  OptionKeys <- MCOptionKeys
  Endpoint = endpoint
  Words <- MCWords
  Nul = nul
  Empty = empty
  Unset = unset
  NoFile = nofile
  Unreadable = unreadable
  Trees <- MCTrees
  Environments <- MCEnvironments
  CommandLines <- MCCommandLines
  Levels = 2
SPECIFICATION Spec
INVARIANTS TypeOK OptionsAreSourced
PROPERTIES EnvironmentStands
CHECK_DEADLOCK FALSE
