SPECIFICATION FairSpec
CONSTANTS
  Operators = {"op1", "op2"}
  Lease = 2
  Renew = 1
  Clusters = {"oc"}
  Deployments = {"d"}
  OwnerOf <- OneOwner
  Workers = {1, 2}
  MaxChanges = 1
  MaxTroubles = 1
INVARIANTS TypeOK OneWorkerPerCluster NothingForgotten
PROPERTIES EveryChangeSynced
CHECK_DEADLOCK TRUE
