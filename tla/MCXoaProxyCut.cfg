SPECIFICATION SafetySpec
CONSTANTS
  Conn = {c1, c2}
  IdleTimeout = 1
CHECK_DEADLOCK FALSE
INVARIANT AcceptedAreDrained
