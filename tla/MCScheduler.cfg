\* Start, addTask, stop and wait with threadNum_ 1 (the main Processor
\* alone) or 3 (one main and two worker Processors).
CONSTANTS
    ThreadNums = {1, 3}
    MaxCalls = 2
SPECIFICATION Spec
INVARIANT TypeOK
INVARIANT WaitImpliesJoined
INVARIANT RoundRobinBalanced
\* The program can block forever (see the violation runs); a blocked state
\* is not an error of this run.
CHECK_DEADLOCK FALSE
