CONSTANTS
  s1 = s1
  s2 = s2
  t1 = t1
  t2 = t2
  Primary = primary
  Sessions = {s1}
  Threads = {t1}
  ThreadOf <- Alone
  Replicas = {r1, r2}
  Autoflush = FALSE
  ReadStyles = {"core"}
  WriteStyles = {"unit_of_work"}
  BlockKinds = {"primary"}
  WriteInBlocks = FALSE
  EndInBlocks = TRUE
  MaxBlocks = 2
  MaxVersion = 2
SPECIFICATION Spec
INVARIANTS
  PrimaryBlockHolds
