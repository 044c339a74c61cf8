SPECIFICATION MCSpec
CONSTANTS
  MaxDigits = 2
  MaxOverhead = 20
  HeadCap = 10
  MaxHeaders = 2
  MaxBody = 2
  FirstSize = 2
  Cap = 6
  Byte <- Plain
  Zero = "NUL"
  Script <- MCScripts
  Garbage <- MCGarbage
  Habit <- MCHabits
INVARIANT
  HeadEndsWhereParsed
