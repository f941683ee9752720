SPECIFICATION Spec
CONSTANTS
  Nodes <- MCNodes
  Prefixes <- MCPrefixes
  Uris <- MCUris
  Documents <- InstructedDocuments
  Default = default
  P = p
  U = u
  V = v
  DSig = dsig
  Empty = empty
  None = none
INVARIANT MatchesOmitComments
CHECK_DEADLOCK FALSE
