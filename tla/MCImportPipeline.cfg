SPECIFICATION Spec
CONSTANT Blocks = 3
CHECK_DEADLOCK FALSE
INVARIANTS
  TypeOK
  OnlyVerifiedUnlessAsked
  RelaysTheImage
  CleanEndIsComplete
PROPERTY ImplementsHandler
