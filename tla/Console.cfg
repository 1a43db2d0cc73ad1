SPECIFICATION FairSpec
CONSTANTS
  KeepLines = 2
  KeepPanel = 2
  KeyRoom = 2
  Nics = {0, 1}
  NoNic = NoNic
  First = 1
  Again = 2
  MaxTime = 3
  OfferTurns = 2
  PressTurns = 4
  Cases <- MCCases
CHECK_DEADLOCK FALSE
INVARIANT Accounted
INVARIANT TimerIsSafe
PROPERTY NextHasTheMachine
 
