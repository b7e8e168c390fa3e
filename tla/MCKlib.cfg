CONSTANTS
  W = 4
  N = 5
  Byte = {0, 1, 2}
  Bits = 8
  MinText <- MCMinText
  Ints <- MCInts
  Uints <- MCUints
  Formats <- MCFormats
  RawFormats <- MCRawFormats
SPECIFICATION Spec
INVARIANTS WritesCorrect ComparesCorrect PrintfCorrect ReadsPast  UnsignedCorrect SignedCorrect
CHECK_DEADLOCK FALSE
