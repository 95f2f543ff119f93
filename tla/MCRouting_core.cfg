CONSTANTS
  s1 = s1
  s2 = s2
  t1 = t1
  t2 = t2
  Primary = primary
  Sessions = {s1, s2}
  Threads = {t1, t2}
  ThreadOf <- OwnThreads
  Replicas = {r1, r2}
  Autoflush = FALSE
  ReadStyles = {"core"}
  WriteStyles = {"unit_of_work"}
  BlockKinds = {"primary", "replica", "thread"}
  WriteInBlocks = FALSE
  EndInBlocks = FALSE
  MaxBlocks = 2
  MaxVersion = 1
SPECIFICATION Spec
INVARIANTS
  TypeOK
  PinnedAfterWrite
  PrimaryBlockHolds
  PinEndsWithTransaction
  
