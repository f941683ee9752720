CONSTANTS
  a = a
  b = b
  signed = signed
  certificates = certificates
  pdf1 = pdf1
  pdf2 = pdf2
  Callers <- MCOneCaller
  Modes <- MCAnyMode
  downloadable <- MCBoth
  Certificate = certificates
  Contents <- MCContents
  Ext <- MCExt
  Garbage = garbage
  NoBinary = nobinary
  Missing = missing
  Documents <- MCNoDocuments
  AttributeCodes <- MCAttributeCodes
  Tests <- MCTests
  Decoded <- MCDecoded
  MaxCalls = 2
SPECIFICATION Spec
INVARIANT NoArtefactsIsTrue
CHECK_DEADLOCK FALSE
