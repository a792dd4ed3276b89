SPECIFICATION Spec
CONSTANT MaxTries = 2
INVARIANT OneEffect
CHECK_DEADLOCK FALSE
