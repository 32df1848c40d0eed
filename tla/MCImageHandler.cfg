SPECIFICATION Spec
CONSTANT Conn = {c1, c2, c3, c4}
INVARIANTS
  TypeOK
  LockIsHeldByImports
  AtMostOneImport
PROPERTIES
  ConflictMeansBusy
  ImplementsService
