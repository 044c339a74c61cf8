SPECIFICATION MCSpec
CONSTANTS
  MaxDigits = 2
  MaxOverhead = 10
  Stream <- MCStreams
  Coded <- MCCoded
INVARIANTS
  CutsAreInvisible
  DecodesInPlace
  RoundTrip
