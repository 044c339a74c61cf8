SPECIFICATION MCSpec
CONSTANTS
  MaxDigits = 2
  MaxOverhead = 20
  HeadCap = 20
  MaxHeaders = 2
  MaxBody = 2
  FirstSize = 2
  MaxRead = 13
  GoodLine <- MCGoodLine
  GoodField <- MCGoodField
  BadLine <- MCBadLine
  BadField <- MCBadField
  Behind <- MCBehind
  Ends <- MCEnds
INVARIANTS
  IInv
  FoundMeansDecided
  AcceptedMeansFound
  TextAsTokens
  FieldsAsTokens
  SlicesInHead
  TargetInParts
