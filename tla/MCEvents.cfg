CONSTANTS
  e1 = e1
  e2 = e2
  Writers = {w1, w2}
  AggregateIds = {a1, a2}
  UniqueIndex = TRUE
  Versioned = FALSE
  MaxCommands = 1
  MaxBatch = 2
  MaxRows = 3
  Aggregates = {a1}
  EventTypes = {e1, e2}
  NumProjections = 2
  Handles <- SecondLacksOne
  StopEarly = FALSE
  ResetsInRun = FALSE
  MaxAppended = 3
  MaxRepeats = 1
SPECIFICATION EventsSpec
INVARIANTS
  TypeOK
  SequenceNumbersGapFree
  VersionedAppendOnce
  OptimisticConcurrency
  
  NothingLostBehindPosition
  
PROPERTIES
  ImplementsEventLog
  AppendReturns
  CatchUpIsComplete
  StopEndsRun
