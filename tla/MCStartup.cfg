SPECIFICATION Spec
CONSTANTS
  PortMax = 3
  SecondsMax = 9
  ClockMax = 5
  Uptime = 2
  DefaultPort = 2
  DefaultSeconds = 2
CHECK_DEADLOCK FALSE
INVARIANTS
  TypeOK
  ListensWhereTold
  WindowIsHonoured
