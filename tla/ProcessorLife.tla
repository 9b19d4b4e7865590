---------------------------- MODULE ProcessorLife ----------------------------
(***************************************************************************)
(* What a Processor promises the Scheduler (Scheduler::stop, joinThread):  *)
(* run() starts, clearing stop_; stop() sets stop_; a run() that sees      *)
(* stop_ set returns.  The detailed Processor module implements this, and  *)
(* Scheduler composes one such life per Processor.                         *)
(***************************************************************************)
VARIABLES life,      \* "created", "running" (inside run()) or "returned"
          stopFlag   \* Processor::stop_

vars == <<life, stopFlag>>

Init == life = "created" /\ stopFlag = FALSE

\* Processor::run() begins: stop_ = false
Start == life = "created" /\ life' = "running" /\ stopFlag' = FALSE

\* Processor::stop(), from any thread, at any time
Stop == stopFlag' = TRUE /\ UNCHANGED life

\* run() leaves its loop and returns
Return == life = "running" /\ stopFlag /\ life' = "returned"
          /\ UNCHANGED stopFlag

Next == Start \/ Stop \/ Return

\* A running Processor whose stop_ stays set does return.
Spec == Init /\ [][Next]_vars /\ WF_vars(Return)
=============================================================================
