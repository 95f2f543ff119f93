CONSTANTS
  Processes = {p1}
  Models <- ShopModels
  Existing = {}
  DependsOn <- NoDependsOn
  Orders <- ShopOrders
  MaxRollbacks = 0
SPECIFICATION Spec
INVARIANTS
  OneRunCreatesAll
