\* Violation: stop() reads isEpolling() before run() sets it.
CONSTANTS
    t1 = t1
    t2 = t2
    s1 = s1
    s2 = s2
    Tasks <- MCTasks
    Submitters <- MCOneSubmitter
    MaxTimerFires = 1
SPECIFICATION Spec
INVARIANT StopWakesPoller
