CONSTANTS
    ThreadNums = {2}
    MaxCalls = 1
SPECIFICATION Spec
PROPERTY WokenWhenSignalled
CHECK_DEADLOCK FALSE
