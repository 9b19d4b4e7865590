\* Violation: a functor bound to the raw this runs after the connection is freed (send() and shutdown() called off the loop).
CONSTANTS
    m1 = m1
    m2 = m2
    Msgs <- MCMsgs
    MsgLen = 2
    HighWaterMark = 3
    ShutdownFromThread = TRUE
SPECIFICATION Spec
INVARIANT NoUseAfterFree
\* The loop may wait for events for ever once nothing is left to do.
CHECK_DEADLOCK FALSE
