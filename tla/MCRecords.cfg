CONSTANTS
  Sessions = {s1, s2}
  Names = {"x", "y"}
  NULL = NULL
  MaxId = 1
  MaxVersion = 2
  Versioned = {TRUE, FALSE}
  Cached = {FALSE}
  Parents = {1}
  Children = {2}
  ParentOf <- OneParent
  Retention = 1
  MaxTime = 3
  MaxCalls = 2
  NoParent = 0
  Callers = {c1, c2}
  Values = {1, 2}
  MaxRows = 2
  Tested <- Repositories
  Clients = {d1, d2}
  Aggregates = {a1}
  EventTypes <- OrderEvents
  MaxEvents = 5
  MaxUncommitted = 2
SYMMETRY Symmetry
SPECIFICATION RecordsSpec
INVARIANTS
  TypeOK
  CascadeReachesAll
  
  LookupIsExact
  
  HistoryIsLegal
  CopyAgreesWithHistory
PROPERTIES
  OnlyAssignedColumnsChange
  StatedVersionHolds
  MarksLast
\* Sessions that have used up their bounds stop.
CHECK_DEADLOCK FALSE
