\* Violation: a Processor or the Scheduler is used after it was destroyed.
CONSTANTS
    ThreadNums = {1, 2}
    MaxCalls = 1
SPECIFICATION Spec
INVARIANT NoUseAfterDestroy
CHECK_DEADLOCK FALSE
