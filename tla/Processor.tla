------------------------------ MODULE Processor ------------------------------
(***************************************************************************)
(* burger::net::Processor (src/burger/net/Processor.cc): one OS thread     *)
(* that runs coroutines from a FIFO run queue and, when the queue is       *)
(* empty, swaps into the "epoll coroutine" that blocks in epoll_wait.      *)
(* Other threads hand it work through addPendingTask and stop it with      *)
(* stop().                                                                 *)
(*                                                                         *)
(* Actors: the Processor thread (run() and the coroutines it swaps in),    *)
(* the Submitters (threads calling Scheduler::addTask, which ends in       *)
(* addPendingTask), one thread calling stop(), and the environment (a peer *)
(* writing to a task's socket, the timer fd expiring).                     *)
(*                                                                         *)
(* The constructor adds two system coroutines: "Wake" blocks in a hooked   *)
(* read of the eventfd wakeupFd_, "timerQue" in the timer queue.  Their    *)
(* code, CoEpoll::poll, the hooked read and CoTimerQueue are not under     *)
(* src/; they are modelled from spec.md sections 4.2-4.4.                  *)
(***************************************************************************)
EXTENDS Naturals, Sequences, FiniteSets, SequencesExt

CONSTANTS Tasks,          \* callbacks submitted from other threads
          Submitters,     \* threads that call addPendingTask
          MaxTimerFires   \* bound: how often the timer fd becomes readable

ASSUME Tasks # {} /\ Submitters # {} /\ MaxTimerFires \in Nat

Wake     == "Wake"        \* callback of the eventfd-reading coroutine
TimerQue == "timerQue"    \* callback of the timer coroutine
SysCbs   == {Wake, TimerQue}
EpollCo  == 0             \* the epoll coroutine made at the start of run()
MaxShells == Cardinality(Tasks) + 2
Shells   == 1..MaxShells  \* coroutine objects made by resetAndGetCo
CoStates == {"FREE", "INIT", "EXEC", "HOLD", "TERM"}   \* FREE: not yet made

VARIABLES
    co,          \* [Shells -> [st, cb, inRead]]: each coroutine object
    nShells,     \* number of coroutine objects made so far
    runQ,        \* runnableCoQue_
    idleQ,       \* idleCoQue_: terminated coroutines kept for reuse
    pending,     \* pendingTasks_
    load,        \* load_
    stopFlag,    \* stop_
    epolling,    \* epoll_.isEpolling()
    waiting,     \* coroutines registered as waiters in CoEpoll
    wakeCnt,     \* counter of the eventfd wakeupFd_
    timerReady,  \* the timer queue's fd is readable
    timerFires,  \* times the timer fd became readable
    sockData,    \* [Tasks -> {"none","ready","consumed"}]: the task's socket
    pc,          \* where the Processor thread is in run()
    cur,         \* coroutine swapped in by run()
    stopPc,      \* the thread calling stop()
    subPc,       \* [Submitters -> {"idle","append","wakeup"}]
    subTask,     \* task a submitter is appending
    subStale,    \* pendingTasks_ changed under an unlocked emplace_back
    submitted,   \* history: tasks handed to addPendingTask
    lost,        \* history: tasks whose emplace_back was overwritten
    ran,         \* history: tasks whose coroutine has been swapped in
    stopAfterStart  \* history: stop() was called after run() began

procVars == <<co, nShells, runQ, idleQ, pending, load, stopFlag, epolling,
              waiting, wakeCnt, pc, cur>>
envVars  == <<timerReady, timerFires, sockData>>
extVars  == <<stopPc, subPc, subTask, subStale, submitted, lost, ran,
              stopAfterStart>>
vars == <<procVars, envVars, extVars>>

-----------------------------------------------------------------------------
(* The part of the state that Processor::addTask and resetAndGetCo change,  *)
(* as a record so that a loop of addTask calls is a fold.                    *)
Sched == [co |-> co, nShells |-> nShells, runQ |-> runQ, idleQ |-> idleQ,
          load |-> load, wake |-> wakeCnt, epolling |-> epolling]

SetSched(s) ==
    /\ co' = s.co /\ nShells' = s.nShells /\ runQ' = s.runQ
    /\ idleQ' = s.idleQ /\ load' = s.load /\ wakeCnt' = s.wake

\* Mutant: addTask without load_++.
AddTaskCoNoCount(s, c) ==
    [s EXCEPT !.co = [@ EXCEPT ![c].st = "EXEC"],
              !.runQ = Append(@, c),
              !.wake = IF s.epolling THEN @ + 1 ELSE @]

\* Processor::addTask(Coroutine::ptr): mark EXEC, enqueue, count, and write
\* the eventfd when the epoll coroutine is polling.
AddTaskCo(s, c) ==
    [s EXCEPT !.co = [@ EXCEPT ![c].st = "EXEC"],
              !.runQ = Append(@, c),
              !.load = @ + 1,
              !.wake = IF s.epolling THEN @ + 1 ELSE @]

\* Processor::resetAndGetCo: reuse the oldest idle coroutine, else make one.
NewShell(s) == IF s.idleQ = <<>> THEN s.nShells + 1 ELSE Head(s.idleQ)

ResetAndGetCo(s, t) ==
    LET c == NewShell(s)
    IN [s EXCEPT !.co = [@ EXCEPT ![c] = [st |-> "INIT", cb |-> t,
                                          inRead |-> FALSE]],
                 !.nShells = IF s.idleQ = <<>> THEN c ELSE @,
                 !.idleQ = IF s.idleQ = <<>> THEN @ ELSE Tail(@)]

\* Processor::addTask(callback, name)
AddTaskCb(s, t) == AddTaskCo(ResetAndGetCo(s, t), NewShell(s))

\* The fd a coroutine blocked in a hooked read is waiting on is readable.
Readable(c) ==
    CASE co[c].cb = Wake     -> wakeCnt > 0
      [] co[c].cb = TimerQue -> timerReady
      [] OTHER               -> sockData[co[c].cb] = "ready"

-----------------------------------------------------------------------------
(* State after the constructor: "Wake" and "timerQue" added with addTask.   *)
(* A newly constructed Processor: load_ = 0, an empty coroutine queue, an  *)
(* eventfd counter of 0, not polling.                                       *)
Fresh ==
    [co |-> [c \in Shells |-> [st |-> "FREE", cb |-> Wake, inRead |-> FALSE]],
     nShells |-> 0, runQ |-> <<>>, idleQ |-> <<>>, load |-> 0,
     wake |-> 0, epolling |-> FALSE]

Init ==
    LET s1 == AddTaskCb(AddTaskCb(Fresh, Wake), TimerQue)
    IN /\ co = s1.co /\ nShells = s1.nShells /\ runQ = s1.runQ
       /\ idleQ = s1.idleQ /\ load = s1.load /\ wakeCnt = s1.wake
       /\ pending = <<>> /\ stopFlag = FALSE /\ epolling = FALSE
       /\ waiting = {} /\ timerReady = FALSE /\ timerFires = 0
       /\ sockData = [t \in Tasks |-> "none"]
       /\ pc = "init" /\ cur = EpollCo /\ stopPc = "idle"
       /\ subPc = [s \in Submitters |-> "idle"]
       /\ subTask = [s \in Submitters |-> CHOOSE t \in Tasks : TRUE]
       /\ subStale = [s \in Submitters |-> FALSE]
       /\ submitted = {} /\ lost = {} /\ ran = {} /\ stopAfterStart = FALSE

-----------------------------------------------------------------------------
(* Processor::run(), up to the loop: stop_ = false, make the epoll co.      *)
RunStart ==
    /\ pc = "init"
    /\ stopFlag' = FALSE
    /\ pc' = "loop"
    /\ UNCHANGED <<co, nShells, runQ, idleQ, pending, load, epolling, waiting,
                   wakeCnt, cur, envVars, extVars>>

(* Mutant: the loop test written as while (!stop_ && !empty).              *)
RunLoopExitWrongCond ==
    /\ pc = "loop"
    /\ runQ = <<>>
    /\ pc' = "finalWait" /\ cur' = EpollCo
    /\ UNCHANGED <<co, nShells, runQ, idleQ, pending, load, stopFlag,
                   epolling, waiting, wakeCnt, envVars, extVars>>

(* The loop test fails: leave the loop and swap into the epoll co once more *)
RunLoopExit ==
    /\ pc = "loop"
    /\ stopFlag /\ runQ = <<>>
    /\ pc' = "finalWait" /\ cur' = EpollCo
    /\ UNCHANGED <<co, nShells, runQ, idleQ, pending, load, stopFlag,
                   epolling, waiting, wakeCnt, envVars, extVars>>

(* Nothing runnable: pick the epoll coroutine.                               *)
PickEpoll ==
    /\ pc = "loop"
    /\ ~stopFlag /\ runQ = <<>>
    /\ pc' = "epollSet" /\ cur' = EpollCo
    /\ UNCHANGED <<co, nShells, runQ, idleQ, pending, load, stopFlag,
                   epolling, waiting, wakeCnt, envVars, extVars>>

(* epoll_.setEpolling(true), then swapIn: the epoll co enters epoll_wait.   *)
SetEpolling ==
    /\ pc = "epollSet"
    /\ epolling' = TRUE
    /\ pc' = "epollWait"
    /\ UNCHANGED <<co, nShells, runQ, idleQ, pending, load, stopFlag, waiting,
                   wakeCnt, cur, envVars, extVars>>

(* Dequeue the head of the run queue and swap it in.                         *)
PickRunnable ==
    /\ pc = "loop"
    /\ runQ # <<>>
    /\ cur' = Head(runQ) /\ runQ' = Tail(runQ)
    /\ pc' = "exec"
    /\ ran' = ran \cup ({co[Head(runQ)].cb} \cap Tasks)
    /\ UNCHANGED <<co, nShells, idleQ, pending, load, stopFlag, epolling,
                   waiting, wakeCnt, envVars, stopPc, subPc, subTask,
                   subStale, submitted, lost, stopAfterStart>>

(* CoEpoll::poll: epoll_wait returns the ready waiters in kernel order;     *)
(* each is taken out of its slot and handed to addTask; then the epoll co   *)
(* yields.  In the final swap-in, run() returns afterwards.                  *)
AfterPoll == IF pc = "epollWait" THEN "after" ELSE "done"

(* Mutant: the waiter is handed to addTask but left in its slot.            *)
EpollEventsKeepWaiters ==
    /\ pc \in {"epollWait", "finalWait"}
    /\ LET rdy == {c \in waiting : Readable(c)}
       IN /\ rdy # {}
          /\ \E order \in SetToSeqs(rdy) :
                SetSched(FoldLeft(AddTaskCo,
                                  [Sched EXCEPT !.epolling = FALSE], order))
    /\ epolling' = FALSE
    /\ pc' = AfterPoll
    /\ UNCHANGED <<pending, stopFlag, cur, waiting, envVars, extVars>>

EpollEvents ==
    /\ pc \in {"epollWait", "finalWait"}
    /\ LET rdy == {c \in waiting : Readable(c)}
       IN /\ rdy # {}
          /\ \E order \in SetToSeqs(rdy) :
                SetSched(FoldLeft(AddTaskCo,
                                  [Sched EXCEPT !.epolling = FALSE], order))
          /\ waiting' = waiting \ rdy
    /\ epolling' = FALSE
    /\ pc' = AfterPoll
    /\ UNCHANGED <<pending, stopFlag, cur, envVars, extVars>>

(* epoll_wait times out after kEpollTimeMs with no event.                    *)
EpollTimeout ==
    /\ pc \in {"epollWait", "finalWait"}
    /\ \A c \in waiting : ~Readable(c)
    /\ epolling' = FALSE
    /\ pc' = AfterPoll
    /\ UNCHANGED <<co, nShells, runQ, idleQ, pending, load, stopFlag, waiting,
                   wakeCnt, cur, envVars, extVars>>

-----------------------------------------------------------------------------
(* The coroutine swapped in runs until it swaps out.                        *)

(* A task's hooked read finds data: it consumes it and the task returns.    *)
RecvData ==
    /\ pc = "exec" /\ co[cur].cb \in Tasks
    /\ sockData[co[cur].cb] = "ready"
    /\ sockData' = [sockData EXCEPT ![co[cur].cb] = "consumed"]
    /\ co' = [co EXCEPT ![cur] = [@ EXCEPT !.st = "TERM", !.inRead = FALSE]]
    /\ pc' = "after"
    /\ UNCHANGED <<nShells, runQ, idleQ, pending, load, stopFlag, epolling,
                   waiting, wakeCnt, cur, timerReady, timerFires, extVars>>

(* A task's hooked read gets EAGAIN: Processor::updateEvent registers the   *)
(* coroutine as the fd's waiter and the coroutine swaps out.                 *)
RecvBlock ==
    /\ pc = "exec" /\ co[cur].cb \in Tasks
    /\ sockData[co[cur].cb] = "none"
    /\ waiting' = waiting \cup {cur}
    /\ co' = [co EXCEPT ![cur] = [@ EXCEPT !.st = "HOLD", !.inRead = TRUE]]
    /\ pc' = "after"
    /\ UNCHANGED <<nShells, runQ, idleQ, pending, load, stopFlag, epolling,
                   wakeCnt, cur, envVars, extVars>>

(* "Wake" runs while (!stop_) consumeWakeUp(); "timerQue" runs             *)
(* while (!stop_) dealWithExpiredTimer().  A resumed read consumes its fd;  *)
(* with stop_ clear the loop reads again, gets EAGAIN and blocks.            *)
Consume(c) ==
    /\ wakeCnt' = IF co[c].cb = Wake THEN 0 ELSE wakeCnt
    /\ timerReady' = IF co[c].cb = TimerQue THEN FALSE ELSE timerReady

SysCoLoop ==
    /\ pc = "exec" /\ co[cur].cb \in SysCbs
    /\ ~stopFlag
    /\ Consume(cur)
    /\ waiting' = waiting \cup {cur}
    /\ co' = [co EXCEPT ![cur] = [@ EXCEPT !.st = "HOLD", !.inRead = TRUE]]
    /\ pc' = "after"
    /\ UNCHANGED <<nShells, runQ, idleQ, pending, load, stopFlag, epolling,
                   cur, timerFires, sockData, extVars>>

SysCoExit ==
    /\ pc = "exec" /\ co[cur].cb \in SysCbs
    /\ stopFlag
    /\ IF co[cur].inRead THEN Consume(cur)
                         ELSE UNCHANGED <<wakeCnt, timerReady>>
    /\ co' = [co EXCEPT ![cur] = [@ EXCEPT !.st = "TERM", !.inRead = FALSE]]
    /\ pc' = "after"
    /\ UNCHANGED <<nShells, runQ, idleQ, pending, load, stopFlag, epolling,
                   waiting, cur, timerFires, sockData, extVars>>

-----------------------------------------------------------------------------
(* Back in run() after swapIn: a TERM coroutine is uncounted and kept for  *)
(* reuse, then addPendingTasksIntoQueue swaps pendingTasks_ out under the   *)
(* mutex and adds each task with addTask(callback, name).                    *)
Retire(s) ==
    IF cur # EpollCo /\ co[cur].st = "TERM"
    THEN [s EXCEPT !.load = @ - 1, !.idleQ = Append(@, cur)]
    ELSE s

(* Mutant: the loop over the swapped-out tasks skips the first one.         *)
AddPendingTasksSkipFirst(s) ==
    IF pending = <<>> THEN s ELSE FoldLeft(AddTaskCb, s, Tail(pending))

AddPendingTasksIntoQueue(s) == FoldLeft(AddTaskCb, s, pending)

AfterSwap ==
    /\ pc = "after"
    /\ SetSched(AddPendingTasksIntoQueue(Retire(Sched)))
    /\ pending' = <<>>
    /\ subStale' = [s \in Submitters |-> subStale[s] \/ subPc[s] = "append"]
    /\ pc' = "loop"
    /\ UNCHANGED <<stopFlag, epolling, waiting, cur, envVars, stopPc, subPc,
                   subTask, submitted, lost, ran, stopAfterStart>>

-----------------------------------------------------------------------------
(* Processor::addPendingTask from another thread.  emplace_back is done     *)
(* without mutex_: it reads the vector, then writes the new element.  If    *)
(* the vector was swapped away or appended to in between (a data race),    *)
(* the element may be written where nobody reads it: the task is lost, or   *)
(* the write may land in pendingTasks_ after all.                            *)
SubmitBegin(s, t) ==
    /\ subPc[s] = "idle" /\ t \notin submitted
    /\ submitted' = submitted \cup {t}
    /\ subTask' = [subTask EXCEPT ![s] = t]
    /\ subStale' = [subStale EXCEPT ![s] = FALSE]
    /\ subPc' = [subPc EXCEPT ![s] = "append"]
    /\ UNCHANGED <<procVars, envVars, stopPc, lost, ran, stopAfterStart>>

SubmitAppend(s) ==
    /\ subPc[s] = "append"
    /\ \/ pending' = Append(pending, subTask[s]) /\ UNCHANGED lost
       \/ subStale[s] /\ lost' = lost \cup {subTask[s]} /\ UNCHANGED pending
    /\ subStale' = [x \in Submitters |->
                        IF x = s THEN FALSE
                        ELSE subStale[x] \/ subPc[x] = "append"]
    /\ subPc' = [subPc EXCEPT ![s] = "wakeup"]
    /\ UNCHANGED <<co, nShells, runQ, idleQ, load, stopFlag, epolling,
                   waiting, wakeCnt, pc, cur, envVars, stopPc, subTask,
                   submitted, ran, stopAfterStart>>

(* Mutant: addPendingTask without the wakeupEpollCo() call.                 *)
SubmitWakeupNoWrite(s) ==
    /\ subPc[s] = "wakeup"
    /\ subPc' = [subPc EXCEPT ![s] = "idle"]
    /\ UNCHANGED <<co, nShells, runQ, idleQ, pending, load, stopFlag,
                   epolling, waiting, wakeCnt, pc, cur, envVars, stopPc,
                   subTask, subStale, submitted, lost, ran, stopAfterStart>>

(* wakeupEpollCo: write 1 to the eventfd.                                   *)
SubmitWakeup(s) ==
    /\ subPc[s] = "wakeup"
    /\ wakeCnt' = wakeCnt + 1
    /\ subPc' = [subPc EXCEPT ![s] = "idle"]
    /\ UNCHANGED <<co, nShells, runQ, idleQ, pending, load, stopFlag,
                   epolling, waiting, pc, cur, envVars, stopPc, subTask,
                   subStale, submitted, lost, ran, stopAfterStart>>

(* Processor::stop() from another thread: stop_ = true, then wake the      *)
(* epoll coroutine if isEpolling() reads true.                               *)
StopSetFlag ==
    /\ stopPc = "idle"
    /\ stopFlag' = TRUE
    /\ stopAfterStart' = (pc # "init")
    /\ stopPc' = "check"
    /\ UNCHANGED <<co, nShells, runQ, idleQ, pending, load, epolling, waiting,
                   wakeCnt, pc, cur, envVars, subPc, subTask, subStale,
                   submitted, lost, ran>>

StopCheckEpolling ==
    /\ stopPc = "check"
    /\ wakeCnt' = IF epolling THEN wakeCnt + 1 ELSE wakeCnt
    /\ stopPc' = "done"
    /\ UNCHANGED <<co, nShells, runQ, idleQ, pending, load, stopFlag,
                   epolling, waiting, pc, cur, envVars, subPc, subTask,
                   subStale, submitted, lost, ran, stopAfterStart>>

-----------------------------------------------------------------------------
(* Environment: a peer writes to a task's socket; a timer expires.          *)
DataArrives(t) ==
    /\ sockData[t] = "none"
    /\ sockData' = [sockData EXCEPT ![t] = "ready"]
    /\ UNCHANGED <<procVars, timerReady, timerFires, extVars>>

TimerExpires ==
    /\ ~timerReady /\ timerFires < MaxTimerFires
    /\ timerReady' = TRUE /\ timerFires' = timerFires + 1
    /\ UNCHANGED <<procVars, sockData, extVars>>

(* run() has returned; the thread is finished.                               *)
Returned == pc = "done" /\ UNCHANGED vars

ProcStep ==
    \/ RunStart \/ RunLoopExit \/ PickEpoll \/ SetEpolling \/ PickRunnable
    \/ EpollEvents \/ EpollTimeout \/ RecvData \/ RecvBlock
    \/ SysCoLoop \/ SysCoExit \/ AfterSwap

Next ==
    \/ ProcStep
    \/ \E s \in Submitters, t \in Tasks : SubmitBegin(s, t)
    \/ \E s \in Submitters : SubmitAppend(s) \/ SubmitWakeup(s)
    \/ StopSetFlag \/ StopCheckEpolling
    \/ \E t \in Tasks : DataArrives(t)
    \/ TimerExpires
    \/ Returned

(* The Processor thread, a stop() or an addPendingTask call under way, all  *)
(* keep running; whether anyone submits or stops, and whether a peer ever  *)
(* writes, is up to the environment.  The epoll_wait timeout always fires.  *)
Fairness ==
    /\ WF_vars(ProcStep)
    /\ WF_vars(StopCheckEpolling)
    /\ \A s \in Submitters : WF_vars(SubmitAppend(s) \/ SubmitWakeup(s))

Spec == Init /\ [][Next]_vars /\ Fairness

-----------------------------------------------------------------------------
(***************************************************************************)
(* Properties                                                              *)
(***************************************************************************)
Count(seq, x) == Cardinality({i \in DOMAIN seq : seq[i] = x})

(* Every variable holds a value of its type.                                *)
TypeOK ==
    /\ co \in [Shells -> [st : CoStates, cb : Tasks \cup SysCbs,
                          inRead : BOOLEAN]]
    /\ nShells \in 0..MaxShells
    /\ runQ \in Seq(Shells) /\ idleQ \in Seq(Shells)
    /\ pending \in Seq(Tasks)
    /\ load \in Nat /\ wakeCnt \in Nat
    /\ stopFlag \in BOOLEAN /\ epolling \in BOOLEAN
    /\ waiting \subseteq Shells
    /\ pc \in {"init", "loop", "epollSet", "epollWait", "exec", "after",
               "finalWait", "done"}
    /\ cur \in Shells \cup {EpollCo}
    /\ subPc \in [Submitters -> {"idle", "append", "wakeup"}]
    /\ lost \subseteq submitted /\ ran \subseteq Tasks

(* Each coroutine object run() has made lives in exactly one place: the   *)
(* run queue (once, EXEC), a CoEpoll waiter slot (HOLD), the idle list     *)
(* (TERM), or swapped in.  Broken if epoll resumes a waiter twice, if a    *)
(* coroutine still in use is pushed to idleCoQue_, or if resetAndGetCo      *)
(* hands out an object that is still queued.                                *)
Running(c) == cur = c /\ (pc = "exec" \/ (pc = "after" /\ c \notin waiting))

OneHome ==
    /\ \A c \in 1..nShells :
          Count(runQ, c) + Count(idleQ, c) + (IF c \in waiting THEN 1 ELSE 0)
            + (IF Running(c) THEN 1 ELSE 0) = 1
    /\ \A i \in DOMAIN runQ : co[runQ[i]].st = "EXEC"
    /\ \A i \in DOMAIN idleQ : co[idleQ[i]].st = "TERM"
    /\ \A c \in waiting : co[c].st = "HOLD"

(* A task in pendingTasks_ is never left behind while the Processor sleeps *)
(* in epoll_wait of its main loop: the "Wake" coroutine's eventfd is       *)
(* readable, or the submitter has still to call wakeupEpollCo.  Otherwise  *)
(* the task waits for the epoll timeout (10 s).                              *)
WakeReady == \E c \in waiting : co[c].cb = Wake /\ Readable(c)

NoStrandedPending ==
    (pc = "epollWait" /\ pending # <<>>)
        => WakeReady \/ \E s \in Submitters : subPc[s] = "wakeup"

(* A task that reaches pendingTasks_ is eventually run, or run() returns   *)
(* first (a stopped Processor drops the tasks it has not drained).          *)
PendingEventuallyRuns ==
    \A t \in Tasks :
        (\E i \in DOMAIN pending : pending[i] = t) ~> (t \in ran \/ pc = "done")

(* run() implements ProcessorLife: it clears stop_ when it starts, returns  *)
(* only with stop_ set, and does return once stop_ is set while it runs.   *)
Life == INSTANCE ProcessorLife
            WITH life <- CASE pc = "init" -> "created"
                           [] pc = "done" -> "returned"
                           [] OTHER       -> "running"

LifeSpec == Life!Spec

(* spec 4.5 (ii): cross-thread submission is serialized by the pending-    *)
(* tasks mutex, so every task given to addPendingTask reaches the buffer.   *)
NoLostSubmission == lost = {}

(* spec 4.5: stop() "if the epoll coroutine is currently blocked in the    *)
(* kernel, writes to the wakeup fd to unblock it".  Once stop() has        *)
(* returned, run() is never blocked in its main-loop epoll_wait without a  *)
(* readable eventfd.                                                         *)
StopWakesPoller ==
    (stopPc = "done" /\ stopAfterStart /\ pc = "epollWait") => WakeReady
=============================================================================
