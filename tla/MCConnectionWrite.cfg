SPECIFICATION MCSpec
CONSTANTS
  Cap = 3
  Byte = {0, 1}
  Zero = 0
  Caller = {c1, c2}
  MaxProduced = 5
  Msg <- MCMsg
  NewMsg <- MCNewMsg
  ProduceHeaderSome <- MCProduceHeaderSome
  ProduceBodySome <- MCProduceBodySome
  HeadToGo <- MCHeadToGo
  BodyToGo <- MCBodyToGo
INVARIANTS
  IInv
  WireInOrder
  MessagesStayWhole
PROPERTIES
  OkMeansSent
  WriteReturns
