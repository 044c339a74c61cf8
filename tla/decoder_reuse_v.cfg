SPECIFICATION MCSpec
CONSTANTS
  MaxDigits = 3
  HeadCap = 1
  MaxHeaders = 1
  MaxBody = 20
  FirstSize = 9
  MaxOverhead = 20
  Cap = 36
  Byte <- Octet
  Zero = "0"
  Stream <- MCStreams
  Coded <- MCCoded
INVARIANT
  DecoderIsGivenNewData
