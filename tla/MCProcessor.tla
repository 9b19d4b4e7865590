----------------------------- MODULE MCProcessor -----------------------------
(* Instance of Processor for TLC: two tasks, the bounds in the cfg files.   *)
EXTENDS Processor, TLC

CONSTANTS t1, t2, s1, s2

MCTasks == {t1, t2}
MCOneSubmitter == {s1}
MCTwoSubmitters == {s1, s2}
MCSymmetry == Permutations(MCTasks)
=============================================================================
