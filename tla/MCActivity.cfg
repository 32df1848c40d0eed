SPECIFICATION Spec
CONSTANTS
  Conn = {c1, c2, c3, c4}
  IdleTimeout = 4
INVARIANTS
  TypeOK
  ActiveCountsGuards
  WindowIsQuiet
PROPERTIES
  ReturnsAfterFullWindow
  IdleReturns
