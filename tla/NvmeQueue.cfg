SPECIFICATION FairSpec
CONSTANTS
  Blocks = 2
  Parts = 1
  Depth = 2
  SqSize = 3
  CidSpace = 5
  Patience = 2
  MaxCalls = 2
  Bad = {1}
  Faults = {"timeout", "junk", "close"}
INVARIANT ReadsOwnBlocks
INVARIANT InOrder
PROPERTY CallReturns
