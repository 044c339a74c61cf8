SPECIFICATION MCSpec
CONSTANTS
  Width = 4
  MaxSize = 400
  Type <- MCType
  Value <- MCValue
  Cut <- MCCut
  Room = {0, 1, 2, 400}
INVARIANTS
  ArrivesAsSent
  ValueArrives
  FramesItself
