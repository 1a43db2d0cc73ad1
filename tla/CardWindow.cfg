SPECIFICATION FairSpec
CONSTANTS
  MaxPort = 2
  Cases <- MCCases
  Retries = 4
  Patience = 3
  Brief = 1
  Turns = 2
  Takes = 2
  Tools = 1
CHECK_DEADLOCK FALSE
INVARIANT SumIsTrue
PROPERTY GoodGuest
PROPERTY StepEnds
