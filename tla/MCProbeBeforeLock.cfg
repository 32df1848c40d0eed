SPECIFICATION Spec
CONSTANT Conn = {c1, c2, c3}
PROPERTY BusyIsAnsweredAtOnce
