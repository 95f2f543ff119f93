CONSTANTS
  e1 = e1
  e2 = e2
  Aggregates = {a1, a2}
  EventTypes = {e1, e2}
  NumProjections = 2
  Handles <- SecondLacksOne
  StopEarly = FALSE
  ResetsInRun = FALSE
  MaxAppended = 2
  MaxRepeats = 0
SPECIFICATION RunnerSpec
PROPERTIES
  CatchUpIsComplete
