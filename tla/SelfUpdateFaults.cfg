SPECIFICATION Spec
CONSTANTS
  boot = boot
  conf = conf
  drv = drv
  none = none
  m1 = m1
  Paths <- MCPaths
  Boot = boot
  Conf = conf
  Drivers = {drv}
  Contents <- MCContents
  None = none
  MaxSerial = 3
  Release <- MCRelease
  Version <- MCVersion
  Downgrade = {}
  Machines = {m1}
  Canary <- MCCanary
  Faulty <- MCFaulty
  Named <- MCNamed
  Faults = {"power", "swap", "torn", "write", "putback", "state", "read", "nv", "worn"}
  MaxFaults = 2
CHECK_DEADLOCK FALSE
INVARIANT GoesBackWhole
INVARIANT IdentityKept
PROPERTY TrialsAreReal
PROPERTY KeepsPromise
