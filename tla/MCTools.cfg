CONSTANTS
  NULL = NULL
  Ids = {1, 2}
  Codes = {1, 2}
  Values = {5, 6}
  Stored <- EmptyOrOne
  Sizes = {2}
  MaxItems = 3
  MaxId = 7
  RowIds = {1, 2, 3, 4}
  OrderValues = {1, 2, 3, 4}
  Unique = TRUE
  Lists <- SomeLists
  Limit = 2
  MaxWrites = 3
  Registrable = {"user", "orders", "order_item", "organizations"}
  Prepared = {"user_type_lk", "status_lk"}
SPECIFICATION ToolsSpec
INVARIANTS
  DoneAsAsked
  
  NumberedWalkIsComplete
PROPERTIES
  
  
  SeedsParentsFirst
  ResetIsUnblocked
\* A bulk operation that is committed or rolled back is over.
CHECK_DEADLOCK FALSE
