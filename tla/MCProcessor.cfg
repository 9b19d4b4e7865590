\* The run loop, cross-thread submission and stop(): safety, liveness of
\* pending tasks, and refinement of ProcessorLife.
CONSTANTS
    t1 = t1
    t2 = t2
    s1 = s1
    s2 = s2
    Tasks <- MCTasks
    Submitters <- MCOneSubmitter
    MaxTimerFires = 1
SPECIFICATION Spec
INVARIANT TypeOK
INVARIANT OneHome
INVARIANT NoStrandedPending
PROPERTY PendingEventuallyRuns
PROPERTY LifeSpec
