SPECIFICATION Spec
CONSTANTS
  Conn = {c1, c2}
  IdleTimeout = 2
CHECK_DEADLOCK FALSE
PROPERTIES
  IdleExit
  ShutdownEnds
  NoStrandedConnection
  ServiceFinishes
