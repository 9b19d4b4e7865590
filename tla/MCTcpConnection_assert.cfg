
CONSTANTS
    m1 = m1
    m2 = m2
    Msgs <- MCMsgs
    MsgLen = 2
    HighWaterMark = 3
    ShutdownFromThread = FALSE
SPECIFICATION Spec
INVARIANT HandleCloseAssertHolds
\* The loop may wait for events for ever once nothing is left to do.
CHECK_DEADLOCK FALSE
