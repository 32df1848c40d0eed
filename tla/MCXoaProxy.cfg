SPECIFICATION SafetySpec
CONSTANTS
  Conn = {c1, c2, c3}
  IdleTimeout = 2
SYMMETRY Symmetry
CHECK_DEADLOCK FALSE
INVARIANTS
  TypeOK
  ServingIsTracked
  LockIsTracked
PROPERTIES
  IdleStopIsQuiet
  ImplementsService
  ImplementsUnit
