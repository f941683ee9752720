CONSTANTS
  a = a
  b = b
  signed = signed
  certificates = certificates
  pdf1 = pdf1
  pdf2 = pdf2
  Callers <- MCCallers
  Modes <- MCModes
  downloadable <- MCBoth
  Certificate = certificates
  Contents <- MCContents
  Ext <- MCExt
  Garbage = garbage
  NoBinary = nobinary
  Missing = missing
  Documents <- MCDocuments
  AttributeCodes <- MCAttributeCodes
  Tests <- MCTests
  Decoded <- MCDecoded
  MaxCalls = 2
SPECIFICATION Spec
SYMMETRY Symmetry
INVARIANTS TypeOK SavedIsWhole EveryKindAsked OnlyWhatWasServed VerdictIsDocumented PrintedIsDocumented
CHECK_DEADLOCK FALSE
