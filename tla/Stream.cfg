SPECIFICATION FairSpec
CONSTANTS
    Cases <- MCCases
    MaxStalls = 2
    MaxWaits = 1
CHECK_DEADLOCK FALSE
INVARIANT SuccessIsReal
INVARIANT TransferFits
PROPERTY CallsEnd
