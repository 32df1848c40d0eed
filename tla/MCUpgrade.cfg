SPECIFICATION Spec
CHECK_DEADLOCK FALSE
INVARIANTS
  TypeOK
  SocketTakesOver
  RemovalIsFinal
PROPERTIES
  ScriptletsSpareImports
  UpgradeKeepsTheEndpoint
