SPECIFICATION MCSpec
CONSTANTS
  Char = {"/", ":", "*", "?", "a", "b", "x", "y"}
  Text <- MCText
  Target <- MCTarget
  Handler = {h1, h2}
  Nobody = Nobody
  NotFound = NotFound
  MaxRoutes = 3
PROPERTIES
  AddLosesNothing
  TableSpec
