SPECIFICATION Spec
CONSTANT Blocks = 1
CHECK_DEADLOCK FALSE
INVARIANT ProbeStatusHonoured
