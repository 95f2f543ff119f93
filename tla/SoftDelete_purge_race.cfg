CONSTANTS
  Parents = {1}
  Children = {2}
  ParentOf <- MCParentOf
  Sessions = {s1, s2}
  Retention = 1
  MaxTime = 3
  MaxCalls = 2
  NoParent = 0
SPECIFICATION SoftSpec
PROPERTIES
  PurgedWhenExpired
\* Clients that have used up their bounds stop.
CHECK_DEADLOCK FALSE
