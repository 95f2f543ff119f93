CONSTANTS
  Callers = {c1, c2, c3}
  Values = {1, 2}
  MaxRows = 2
  Tested <- Repositories
SPECIFICATION CallsSpec
INVARIANTS
  GetOrCreateAnswers
\* Clients that have used up their bounds stop.
CHECK_DEADLOCK FALSE
