SPECIFICATION MCSpec
CONSTANTS
  BufferSizes = {0, 3, 4, 7}
  OwnSize = 5
  Field <- MCField
  Body <- MCBody
  Spans = {0, 1, 4}
  MaxSets = 2
INVARIANTS
  TypeOK
  HeadIsWhole
  BodyAsAnnounced
