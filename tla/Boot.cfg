SPECIFICATION FairSpec
CONSTANTS
  MaxId = 2
  Cases <- MCCases
INVARIANT DoneOnce
INVARIANT ImageAsTold
INVARIANT OneClone
INVARIANT DiskWhereNeeded
PROPERTY NeedsNoNetwork
