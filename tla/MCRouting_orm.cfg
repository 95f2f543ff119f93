CONSTANTS
  s1 = s1
  s2 = s2
  t1 = t1
  t2 = t2
  Primary = primary
  Sessions = {s1}
  Threads = {t1}
  ThreadOf <- Alone
  Replicas = {r1, r2}
  Autoflush = TRUE
  ReadStyles = {"core", "orm"}
  WriteStyles = {"core", "unit_of_work"}
  BlockKinds = {"primary", "replica", "thread"}
  WriteInBlocks = FALSE
  EndInBlocks = FALSE
  MaxBlocks = 3
  MaxVersion = 2
SPECIFICATION Spec
INVARIANTS
  FreshInPrimaryBlock
