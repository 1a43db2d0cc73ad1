SPECIFICATION FairStick
CONSTANTS
  boot = boot
  conf = conf
  drv = drv
  none = none
  m1 = m1
  Paths <- MCPaths
  Boot = boot
  Conf = conf
  Drivers = {drv}
  Contents <- MCContents
  None = none
  MaxSerial = 4
  Release <- MCRelease
  Version <- MCVersion
  Downgrade = {}
  Machines = {m1}
  Canary <- MCCanary
  Faulty <- MCFaulty
  Named <- MCNamed
  ConfVersion <- MCConfVersion
  Bays <- MCBays
  Faults = {"power", "swap", "torn", "write", "putback", "state", "read", "nv"}
  MaxFaults = 1
CHECK_DEADLOCK FALSE
INVARIANT LosesNothing
INVARIANT OneWholeSet
PROPERTY BothKeepPromise
PROPERTY BootsAndTrialsEnd
