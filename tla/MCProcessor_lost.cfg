\* Violation: an unlocked emplace_back in addPendingTask loses a task.
CONSTANTS
    t1 = t1
    t2 = t2
    s1 = s1
    s2 = s2
    Tasks <- MCTasks
    Submitters <- MCOneSubmitter
    MaxTimerFires = 1
SPECIFICATION Spec
INVARIANT NoLostSubmission
