CONSTANTS
  own = own
  other = other
  portal = portal
  Keys <- MCKeys
  NotRSA = notrsa
  Garbage = garbage
  None = none
  Configs <- MCConfigs
  Signers <- MCSigners
  Held <- MCHeld
  Edits <- MCEdits
  MaxSigned = 2
  MaxDamaged = 1
  MaxAltered = 4
  MaxAlteredAssertion = 1
SPECIFICATION Spec
INVARIANTS
  TypeOK
  AcceptedIsSigned
  SignedVerifies
  SignsIn
PROPERTIES
  FirstSignatureStands
CHECK_DEADLOCK FALSE
