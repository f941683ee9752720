CONSTANTS
  own = own
  other = other
  portal = portal
  Keys <- MCKeys
  NotRSA = notrsa
  Garbage = garbage
  None = none
  Configs <- MCConfigs
  Signers <- MCSigners
  Held <- MCHeld
  Edits <- MCEdits
  MaxSigned = 2
  MaxDamaged = 1
  MaxAltered = 2
  MaxAlteredAssertion = 1
SPECIFICATION Spec
PROPERTY AppendedVerifies
CHECK_DEADLOCK FALSE
