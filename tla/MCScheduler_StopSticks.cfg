CONSTANTS
    ThreadNums = {2}
    MaxCalls = 1
SPECIFICATION Spec
INVARIANT StopSticks
CHECK_DEADLOCK FALSE
