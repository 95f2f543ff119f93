CONSTANTS
  Sessions = {s1, s2, s3}
  NumReplicas = 2
  Strategies = {"round_robin", "random", "least_connections"}
  Capacity = 1
  MaxLead = 2
SPECIFICATION FairSpec
INVARIANTS
  TypeOK
  RoundRobinBalanced

  
