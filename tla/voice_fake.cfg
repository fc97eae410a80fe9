SPECIFICATION Spec
CONSTANT None = None
INVARIANT NoFakeHealthy
CHECK_DEADLOCK FALSE
