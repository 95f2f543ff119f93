CONSTANTS
  Processes = {p1, p2}
  Models <- MCModels
  Existing <- Lookups
  DependsOn <- MCDependsOn
  Orders <- MCOrders
  MaxRollbacks = 1
SPECIFICATION FairSpec
INVARIANTS
  ReportIsTrue
  OneRunSuffices
PROPERTIES
  Converges
