SPECIFICATION Spec
CONSTANTS
  Nodes <- MCNodes
  Prefixes <- MCPrefixes
  Uris <- MCUris
  Documents <- MCDocuments
  Default = default
  P = p
  U = u
  V = v
  DSig = dsig
  Empty = empty
  None = none
INVARIANTS TypeOK ScopeIsFaithful MinimalDeclarations AttributeKeys OnlySignaturesDropped
CHECK_DEADLOCK FALSE
