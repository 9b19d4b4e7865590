----------------------------- MODULE MCScheduler -----------------------------
(* Instance of Scheduler for TLC; ThreadNum and MaxTasks are set per cfg.   *)
EXTENDS Scheduler
=============================================================================
