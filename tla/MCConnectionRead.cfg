SPECIFICATION MCSpec
CONSTANTS
  Cap = 3
  Byte = {0, 1}
  Zero = 0
  Caller = {c1, c2}
  MaxSent = 5
  Msg <- MCMsg
  NewMsg <- MCNewMsg
  ConsumeHeaderSome <- MCConsumeHeaderSome
  ConsumeBodySome <- MCConsumeBodySome
  Raw <- MCRaw
  HeadRead <- MCHeadRead
  Whole <- MCWhole
INVARIANTS
  IInv
  Conservation
  WholeBufferOffered
  FramesTileTheStream
PROPERTIES
  FailureIsFinal
  IntakeSpec
  ClosedPeerReleasesReader
