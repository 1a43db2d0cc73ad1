SPECIFICATION FairSpec
CONSTANTS
  p1 = p1
  p2 = p2
  Ports <- MCPorts
  Overridable <- MCOverridable
  Pins = {"rs", "off", "unknown"}
  Sticks = {"none", "rs"}
  Faults = {"power", "missing", "read", "refuse", "lost", "hang", "forget", "nv", "unread"}
INVARIANT Once
PROPERTY EveryStartGoesOn
PROPERTY TrialGetsItsStart
