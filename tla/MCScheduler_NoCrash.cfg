CONSTANTS
    ThreadNums = {1, 2}
    MaxCalls = 1
SPECIFICATION Spec
INVARIANT NoCrash
CHECK_DEADLOCK FALSE
