------------------------------ MODULE Scheduler ------------------------------
(***************************************************************************)
(* burger::net::Scheduler (src/burger/net/Scheduler.cc): owns one main     *)
(* Processor and threadNum_-1 worker Processors, started with startAsync(), *)
(* stopped with stop(), awaited with wait(), fed with addTask() and the    *)
(* timer calls runAt/runAfter/runEvery/cancel.                             *)
(*                                                                         *)
(* Each Processor is the abstract ProcessorLife (run() starts and clears   *)
(* stop_; it returns once stop_ is set while it runs), which the detailed  *)
(* Processor module is checked to implement.  A Processor lives as long as *)
(* its thread: the main one is the unique_ptr local to start(), destroyed  *)
(* when run() returns; a worker's ends with its ProcessThread (spec 4.5).  *)
(*                                                                         *)
(* Threads: "M" the user's thread (startAsync, addTask, timers, stop,      *)
(* wait), "T" the thread startAsync creates (start(), then the main        *)
(* Processor's run()), "Co" a coroutine on a Processor that calls stop(),  *)
(* "J" the detached thread stop() makes for joinThread when called from a  *)
(* Processor.  Worker threads are the workers' ProcessorLife.              *)
(***************************************************************************)
EXTENDS Naturals, FiniteSets

CONSTANTS ThreadNums,  \* values setThreadNum may give threadNum_ (main included)
          MaxCalls     \* bound: addTask and timer calls made by M

ASSUME ThreadNums \subseteq Nat \ {0} /\ ThreadNums # {} /\ MaxCalls \in Nat

MaxThreads == CHOOSE n \in ThreadNums : \A k \in ThreadNums : k <= n
Main    == 0
Procs   == 0..(MaxThreads - 1)      \* every Processor some threadNum_ makes
Threads == {"M", "T", "Co", "J"}
Calls   == {"addTask", "timer"}     \* addPendingTask, or CoTimerQueue::addTimer

VARIABLES
    threadNum,   \* threadNum_, fixed by setThreadNum before start
    running,     \* running_
    quit,        \* quit_
    mainProcSet, \* mainProc_ # nullptr
    index,       \* the function-static round-robin index of pickOneProcesser
    schedLife,   \* the Scheduler object: "alive", "destroying" (in ~Scheduler), "destroyed"
    life,        \* [Procs -> {"none","created","running","returned"}]
    pstop,       \* [Procs -> BOOLEAN]: each Processor's stop_
    tp,          \* [Threads -> program counter]
    cvBlocked,   \* M blocked in cv_.wait (startAsync)
    quitBlocked, \* M blocked in quitCv_.wait (wait)
    coHost,      \* the Processor whose thread runs the coroutine Co
    mCall,       \* the call M is making: "addTask" or "timer"
    mTarget,     \* Processor chosen by pickOneProcesser
    nCalls,      \* addTask and timer calls made
    dispatched,  \* [Procs -> Nat]: tasks and timers handed to each Processor
    timers,      \* Processors owning a timer M has added (its TimerIds)
    mStopped,    \* M has called stop()
    stopDone,    \* history: a stop() has set stop_ on every Processor
    crashed,     \* a null mainProc_ was dereferenced, or CRITICAL aborted
    freedUse     \* a destroyed Processor was used

schedVars  == <<threadNum, running, quit, mainProcSet, index, schedLife>>
procVars   == <<life, pstop>>
threadVars == <<tp, cvBlocked, quitBlocked, coHost>>
callVars   == <<mCall, mTarget, nCalls, dispatched, timers>>
histVars   == <<mStopped, stopDone, crashed, freedUse>>
histNoUse  == <<mStopped, stopDone, crashed>>   \* histVars but freedUse
vars == <<schedVars, procVars, threadVars, callVars, histVars>>

Workers     == 1..(threadNum - 1)            \* workProcVec_ after start()
ActiveProcs == {Main} \cup Workers

Init ==
    /\ threadNum \in ThreadNums
    /\ running = FALSE /\ quit = FALSE /\ mainProcSet = FALSE /\ index = 0
    /\ schedLife = "alive"
    /\ life = [p \in Procs |-> "none"] /\ pstop = [p \in Procs |-> FALSE]
    /\ tp = [t \in Threads |-> IF t = "M" THEN "startAsync" ELSE "idle"]
    /\ cvBlocked = FALSE /\ quitBlocked = FALSE /\ coHost = Main
    /\ mCall = "addTask" /\ mTarget = Main /\ nCalls = 0
    /\ dispatched = [p \in Procs |-> 0] /\ timers = {}
    /\ mStopped = FALSE /\ stopDone = FALSE /\ crashed = FALSE /\ freedUse = FALSE

Goto(t, l) == tp' = [tp EXCEPT ![t] = l]

\* Only tp changes among threadVars.
PcOnly == <<cvBlocked, quitBlocked, coHost>>

\* Where M goes when a stop() it called returns: back to its program, or on
\* with ~Scheduler when that stop() was the destructor's.
Body == CASE schedLife = "destroying" -> "dtor"
          [] mStopped                 -> "body2"
          [] OTHER                    -> "body"

\* A join thread or a coroutine reaches the Scheduler object after its
\* destructor has run.
TouchSched == freedUse' = (freedUse \/ schedLife = "destroyed")

\* A Processor is destroyed once its run() has returned.
Freed(p) == life[p] = "returned"

\* Co's stop() runs on its host Processor's thread, which is busy meanwhile.
CoStopping == tp["Co"] \in {"stop1", "stop2", "stop3", "stop3w", "stop4", "stop5"}

-----------------------------------------------------------------------------
(* Processors (ProcessorLife).                                               *)

(* Processor::run() begins and sets stop_ = false: the main one on T after *)
(* start() has notified, a worker on its own thread once constructed.       *)
ProcStart(p) ==
    /\ life[p] = "created"
    /\ p = Main => tp["T"] = "run"
    /\ life' = [life EXCEPT ![p] = "running"]
    /\ pstop' = [pstop EXCEPT ![p] = FALSE]
    /\ IF p = Main THEN Goto("T", "running") ELSE UNCHANGED tp
    /\ UNCHANGED <<schedVars, PcOnly, callVars, histVars>>

(* run() sees stop_ and returns; the thread ends and the Processor with it *)
(* (start() returns and its unique_ptr deletes the main Processor).        *)
ProcReturn(p) ==
    /\ life[p] = "running" /\ pstop[p]
    /\ ~(CoStopping /\ coHost = p)
    /\ life' = [life EXCEPT ![p] = "returned"]
    /\ IF p = Main THEN Goto("T", "done") ELSE UNCHANGED tp
    /\ UNCHANGED <<schedVars, pstop, PcOnly, callVars, histVars>>

-----------------------------------------------------------------------------
(* startAsync() on M: if (running_) return; create thread_, then          *)
(* cv_.wait(lock, [this]{ return running_ == true; }).                      *)
StartAsync ==
    /\ tp["M"] = "startAsync" /\ ~running
    /\ tp' = [tp EXCEPT !["M"] = "check1", !["T"] = "start"]
    /\ UNCHANGED <<schedVars, procVars, PcOnly, callVars, histVars>>

(* The predicate is tested under mutex_ ...                                  *)
StartAsyncCheck ==
    /\ tp["M"] = "check1"
    /\ Goto("M", IF running THEN "body" ELSE "block1")
    /\ UNCHANGED <<schedVars, procVars, PcOnly, callVars, histVars>>

(* ... and if false, M releases mutex_ and blocks on cv_.                   *)
StartAsyncBlock ==
    /\ tp["M"] = "block1"
    /\ cvBlocked' = TRUE /\ Goto("M", "blocked1")
    /\ UNCHANGED <<schedVars, procVars, quitBlocked, coHost, callVars, histVars>>

(* start() on T: make the main Processor and the workers (ProcessThread::   *)
(* startProcess returns once its Processor is constructed).                  *)
Start ==
    /\ tp["T"] = "start"
    /\ mainProcSet' = TRUE
    /\ life' = [p \in Procs |-> IF p \in ActiveProcs THEN "created" ELSE "none"]
    /\ Goto("T", "setRunning")
    /\ UNCHANGED <<threadNum, schedLife, running, quit, index, pstop, PcOnly, callVars,
                   histVars>>

StartSetRunning ==
    /\ tp["T"] = "setRunning"
    /\ running' = TRUE /\ Goto("T", "notify")
    /\ UNCHANGED <<threadNum, schedLife, quit, mainProcSet, index, procVars, PcOnly,
                   callVars, histVars>>

(* cv_.notify_one() without holding mutex_: wakes M only if M is blocked.   *)
StartNotify ==
    /\ tp["T"] = "notify"
    /\ cvBlocked' = FALSE
    /\ tp' = [tp EXCEPT !["T"] = "run", !["M"] = IF cvBlocked THEN "check1" ELSE @]
    /\ UNCHANGED <<schedVars, procVars, quitBlocked, coHost, callVars, histVars>>

-----------------------------------------------------------------------------
(* addTask, and runAt/runAfter/runEvery for a coroutine or a callback: M  *)
(* calls pickOneProcesser, which picks a worker round-robin under mutex_,  *)
(* or mainProc_ when there are no workers, and CRITICAL when mainProc_ is  *)
(* null as well.                                                             *)
Picking == tp["M"] \in {"body", "body2"} /\ nCalls < MaxCalls

PickCritical ==
    /\ Picking
    /\ Workers = {} /\ ~mainProcSet
    /\ crashed' = TRUE
    /\ UNCHANGED <<schedVars, procVars, threadVars, callVars, mStopped, stopDone,
                   freedUse>>

(* Mutant: the index wraps at threadNum_ instead of workProcVec_.size().  *)
PickOneWrapThreadNum(c) ==
    /\ Picking
    /\ Workers # {} \/ mainProcSet
    /\ IF Workers = {}
       THEN mTarget' = Main /\ UNCHANGED index
       ELSE mTarget' = index + 1 /\ index' = (index + 1) % threadNum
    /\ mCall' = c /\ Goto("M", "dispatch")
    /\ UNCHANGED <<threadNum, schedLife, running, quit, mainProcSet, procVars, PcOnly,
                   nCalls, dispatched, timers, histVars>>

(* Mutant: the main Processor takes part in the round robin.               *)
PickOneWithMain(c) ==
    /\ Picking
    /\ Workers # {} \/ mainProcSet
    /\ IF Workers = {}
       THEN mTarget' = Main /\ UNCHANGED index
       ELSE mTarget' = index /\ index' = (index + 1) % threadNum
    /\ mCall' = c /\ Goto("M", "dispatch")
    /\ UNCHANGED <<threadNum, schedLife, running, quit, mainProcSet, procVars, PcOnly,
                   nCalls, dispatched, timers, histVars>>

PickOne(c) ==
    /\ Picking
    /\ Workers # {} \/ mainProcSet
    /\ IF Workers = {}
       THEN mTarget' = Main /\ UNCHANGED index
       ELSE mTarget' = index + 1 /\ index' = (index + 1) % Cardinality(Workers)
    /\ mCall' = c /\ Goto("M", "dispatch")
    /\ UNCHANGED <<threadNum, schedLife, running, quit, mainProcSet, procVars, PcOnly,
                   nCalls, dispatched, timers, histVars>>

(* proc->addPendingTask(task), or proc->getTimerQueue()->addTimer(...),    *)
(* which returns a TimerId naming proc; proc may have been destroyed since *)
(* pickOneProcesser read it.                                                 *)
Dispatch ==
    /\ tp["M"] = "dispatch"
    /\ dispatched' = [dispatched EXCEPT ![mTarget] = @ + 1]
    /\ timers' = IF mCall = "timer" THEN timers \cup {mTarget} ELSE timers
    /\ freedUse' = (freedUse \/ Freed(mTarget))
    /\ nCalls' = nCalls + 1 /\ Goto("M", Body)
    /\ UNCHANGED <<schedVars, procVars, PcOnly, mCall, mTarget, mStopped,
                   stopDone, crashed>>

(* cancel(timerId): timerId.timer_->getProcessor()->getTimerQueue()->cancel *)
Cancel ==
    /\ tp["M"] \in {"body", "body2"}
    /\ \E p \in timers :
          /\ timers' = timers \ {p}
          /\ freedUse' = (freedUse \/ Freed(p))
    /\ UNCHANGED <<schedVars, procVars, threadVars, mCall, mTarget, nCalls,
                   dispatched, mStopped, stopDone, crashed>>

-----------------------------------------------------------------------------
(* Scheduler::stop() on x (M, or the coroutine Co):                          *)
(* if (!running_) return; running_ = false;                                  *)
StopCheck(x) ==
    /\ tp[x] = "stop1"
    /\ Goto(x, IF running THEN "stop2" ELSE IF x = "M" THEN Body ELSE "done")
    /\ UNCHANGED <<schedVars, procVars, PcOnly, callVars, histVars>>

StopClearRunning(x) ==
    /\ tp[x] = "stop2"
    /\ running' = FALSE /\ Goto(x, "stop3")
    /\ UNCHANGED <<threadNum, schedLife, quit, mainProcSet, index, procVars, PcOnly,
                   callVars, histVars>>

(* mainProc_->stop(): stop_ = true; a null mainProc_ is dereferenced.       *)
StopMain(x) ==
    /\ tp[x] = "stop3"
    /\ IF mainProcSet
       THEN /\ pstop' = [pstop EXCEPT ![Main] = TRUE] /\ Goto(x, "stop3w")
            /\ freedUse' = (freedUse \/ Freed(Main)) /\ UNCHANGED crashed
       ELSE crashed' = TRUE /\ UNCHANGED <<pstop, tp, freedUse>>
    /\ UNCHANGED <<schedVars, life, PcOnly, callVars, mStopped, stopDone>>

(* ... then if (isEpolling()) wakeupEpollCo(): the main Processor is read   *)
(* again, and may have returned and been deleted meanwhile.                  *)
StopMainWake(x) ==
    /\ tp[x] = "stop3w"
    /\ freedUse' = (freedUse \/ Freed(Main)) /\ Goto(x, "stop4")
    /\ UNCHANGED <<schedVars, procVars, PcOnly, callVars, mStopped, stopDone,
                   crashed>>

(* mainProc_ = nullptr;                                                      *)
StopNullMain(x) ==
    /\ tp[x] = "stop4"
    /\ mainProcSet' = FALSE /\ Goto(x, "stop5")
    /\ UNCHANGED <<threadNum, schedLife, running, quit, index, procVars, PcOnly, callVars,
                   histVars>>

(* proc->stop() for every worker; then joinThread, on a detached thread    *)
(* when hooking is enabled (stop() called on a Processor's thread).         *)
StopWorkers(x) ==
    /\ tp[x] = "stop5"
    /\ pstop' = [p \in Procs |-> IF p \in Workers THEN TRUE ELSE pstop[p]]
    /\ freedUse' = (freedUse \/ \E w \in Workers : Freed(w))
    /\ stopDone' = TRUE
    /\ tp' = IF x = "Co" THEN [tp EXCEPT !["Co"] = "done", !["J"] = "join1"]
                         ELSE [tp EXCEPT ![x] = "join1"]
    /\ UNCHANGED <<schedVars, life, PcOnly, callVars, mStopped, crashed>>

-----------------------------------------------------------------------------
(* Scheduler::joinThread on y (M inline, or the detached J).  Every step  *)
(* reads the Scheduler's members, freed if ~Scheduler has run meanwhile.    *)
(* if (thread_.joinable()) ...                                               *)
JoinCheck(y) ==
    /\ tp[y] = "join1"
    /\ Goto(y, IF tp["T"] = "joined" THEN "join2" ELSE "join1j")
    /\ UNCHANGED <<schedVars, procVars, PcOnly, callVars, histNoUse>> /\ TouchSched

(* ... thread_.join(): blocks until start() has returned on T.  If the     *)
(* other stop()'s joiner has joined T since the test, this second join of  *)
(* the same std::thread throws (or is undefined) and the process aborts.    *)
JoinSchedThread(y) ==
    /\ tp[y] = "join1j" /\ tp["T"] \in {"done", "joined"}
    /\ IF tp["T"] = "joined"
       THEN crashed' = TRUE /\ UNCHANGED tp
       ELSE tp' = [tp EXCEPT ![y] = "join2", !["T"] = "joined"] /\ UNCHANGED crashed
    /\ UNCHANGED <<schedVars, procVars, PcOnly, callVars, mStopped, stopDone>>
    /\ TouchSched

(* Mutant: the worker threads are not joined.                               *)
JoinWorkersSkip(y) ==
    /\ tp[y] = "join2"
    /\ Goto(y, "join3")
    /\ UNCHANGED <<schedVars, procVars, PcOnly, callVars, histNoUse>> /\ TouchSched

(* for (auto thrd : workThreadVec_) thrd->join();                           *)
JoinWorkers(y) ==
    /\ tp[y] = "join2" /\ \A w \in Workers : Freed(w)
    /\ Goto(y, "join3")
    /\ UNCHANGED <<schedVars, procVars, PcOnly, callVars, histNoUse>> /\ TouchSched

(* quit_ = true, written without mutex_ ...                                 *)
SetQuit(y) ==
    /\ tp[y] = "join3"
    /\ quit' = TRUE /\ Goto(y, "join4")
    /\ UNCHANGED <<threadNum, schedLife, running, mainProcSet, index, procVars,
                   PcOnly, callVars, histNoUse>>
    /\ TouchSched

(* ... then quitCv_.notify_one(): wakes M only if M is already blocked.     *)
NotifyQuit(y) ==
    /\ tp[y] = "join4"
    /\ quitBlocked' = FALSE
    /\ tp' = [tp EXCEPT ![y] = IF y = "M" THEN Body ELSE "done",
                        !["M"] = IF quitBlocked THEN "wcheck" ELSE @]
    /\ UNCHANGED <<schedVars, procVars, cvBlocked, coHost, callVars, histNoUse>>
    /\ TouchSched

-----------------------------------------------------------------------------
(* M calls stop() (once), or wait():                                         *)
(* quitCv_.wait(lock, [this] { return quit_ == true; }).                    *)
MStop ==
    /\ tp["M"] = "body"
    /\ mStopped' = TRUE /\ Goto("M", "stop1")
    /\ UNCHANGED <<schedVars, procVars, PcOnly, callVars, stopDone, crashed,
                   freedUse>>

WaitBegin ==
    /\ tp["M"] \in {"body", "body2"}
    /\ Goto("M", "wcheck")
    /\ UNCHANGED <<schedVars, procVars, PcOnly, callVars, histVars>>

WaitCheck ==
    /\ tp["M"] = "wcheck"
    /\ Goto("M", IF quit THEN "end" ELSE "wblock")
    /\ UNCHANGED <<schedVars, procVars, PcOnly, callVars, histVars>>

WaitBlock ==
    /\ tp["M"] = "wblock"
    /\ quitBlocked' = TRUE /\ Goto("M", "wblocked")
    /\ UNCHANGED <<schedVars, procVars, cvBlocked, coHost, callVars, histVars>>

(* A coroutine on a running Processor calls Scheduler::stop().              *)
CoStop ==
    /\ tp["Co"] = "idle"
    /\ \E p \in ActiveProcs : life[p] = "running" /\ coHost' = p
    /\ Goto("Co", "stop1")
    /\ UNCHANGED <<schedVars, procVars, cvBlocked, quitBlocked, callVars, histNoUse>>
    /\ TouchSched

(* M's program ends and destroys the Scheduler (after wait() returned, or  *)
(* without it): ~Scheduler() calls stop() first.                           *)
MDestroy ==
    /\ tp["M"] \in {"body", "body2", "end"} /\ schedLife = "alive"
    /\ schedLife' = "destroying" /\ Goto("M", "stop1")
    /\ UNCHANGED <<threadNum, running, quit, mainProcSet, index, procVars,
                   PcOnly, callVars, histVars>>

(* When that stop() returns the members are destroyed; a std::thread       *)
(* thread_ still joinable calls std::terminate.                             *)
Destruct ==
    /\ tp["M"] = "dtor"
    /\ IF tp["T"] \in {"idle", "joined"}
       THEN schedLife' = "destroyed" /\ Goto("M", "gone") /\ UNCHANGED crashed
       ELSE crashed' = TRUE /\ UNCHANGED <<schedLife, tp>>
    /\ UNCHANGED <<threadNum, running, quit, mainProcSet, index, procVars,
                   PcOnly, callVars, mStopped, stopDone, freedUse>>

-----------------------------------------------------------------------------
StopStep(x) ==
    \/ StopCheck(x) \/ StopClearRunning(x) \/ StopMain(x) \/ StopMainWake(x)
    \/ StopNullMain(x) \/ StopWorkers(x)

JoinStep(y) ==
    \/ JoinCheck(y) \/ JoinSchedThread(y) \/ JoinWorkers(y) \/ SetQuit(y)
    \/ NotifyQuit(y)

(* Steps M takes on its own once a call has begun.                           *)
MStep ==
    \/ StartAsyncCheck \/ StartAsyncBlock \/ Dispatch \/ WaitCheck \/ WaitBlock
    \/ Destruct    \/ StopStep("M") \/ JoinStep("M")

TStep == Start \/ StartSetRunning \/ StartNotify

ProcStep == \E p \in Procs : ProcStart(p) \/ ProcReturn(p)

Step ==
    \/ StartAsync \/ PickCritical \/ \E c \in Calls : PickOne(c)
    \/ Cancel \/ MStop \/ WaitBegin \/ CoStop \/ MDestroy
    \/ MStep \/ TStep \/ ProcStep \/ StopStep("Co") \/ JoinStep("J")

(* An abort ends the process; M's program may end after wait() returned   *)
(* or the Scheduler was destroyed.                                          *)
Next ==
    \/ ~crashed /\ Step
    \/ (crashed \/ tp["M"] \in {"end", "gone"}) /\ UNCHANGED vars

(* Every thread keeps running once it has something to do; which calls M   *)
(* makes, and whether a coroutine calls stop(), is up to the program using *)
(* the Scheduler.                                                            *)
Fairness ==
    /\ WF_vars(~crashed /\ MStep)
    /\ WF_vars(~crashed /\ TStep)
    /\ WF_vars(~crashed /\ StopStep("Co"))
    /\ WF_vars(~crashed /\ JoinStep("J"))
    /\ \A p \in Procs : WF_vars(~crashed /\ (ProcStart(p) \/ ProcReturn(p)))

Spec == Init /\ [][Next]_vars /\ Fairness

-----------------------------------------------------------------------------
(***************************************************************************)
(* Properties                                                              *)
(***************************************************************************)
PcM == {"startAsync", "check1", "block1", "blocked1", "body", "body2",
        "dispatch", "stop1", "stop2", "stop3", "stop3w", "stop4", "stop5",
        "join1", "join1j", "join2", "join3", "join4", "wcheck", "wblock",
        "wblocked", "end", "dtor", "gone"}

(* Every variable holds a value of its type.                                *)
TypeOK ==
    /\ threadNum \in ThreadNums
    /\ schedLife \in {"alive", "destroying", "destroyed"}
    /\ index \in 0..(Cardinality(Workers) - 1) \cup {0}
    /\ life \in [Procs -> {"none", "created", "running", "returned"}]
    /\ pstop \in [Procs -> BOOLEAN]
    /\ tp["M"] \in PcM /\ coHost \in Procs
    /\ mCall \in Calls /\ mTarget \in Procs /\ nCalls \in 0..MaxCalls
    /\ dispatched \in [Procs -> 0..MaxCalls] /\ timers \subseteq Procs

(* spec 4.6: wait() blocks until every Processor has joined: when it        *)
(* returns, the main Processor's and every worker's run() has returned.      *)
WaitImpliesJoined ==
    tp["M"] = "end" => \A p \in ActiveProcs : Freed(p)

(* spec 4.6: addTask and the timer calls go round-robin over the workers,  *)
(* the main Processor being excluded when there are workers.                *)
RoundRobinBalanced ==
    /\ Workers # {} => dispatched[Main] = 0
    /\ \A w1, w2 \in Workers : dispatched[w1] <= dispatched[w2] + 1

(* Once a stop() has called Processor::stop on every Processor, no         *)
(* Processor runs with stop_ clear (else its run() never returns).          *)
StopSticks ==
    stopDone => \A p \in Procs : life[p] = "running" => pstop[p]

(* No stop() or addTask dereferences a null mainProc_ or aborts in          *)
(* pickOneProcesser.                                                         *)
NoCrash == ~crashed

(* No call reaches a Processor or the Scheduler after it was destroyed:    *)
(* addTask, runAt and cancel through a pointer or TimerId read before,     *)
(* stop() through mainProc_ or workProcVec_, the detached joinThread or a  *)
(* coroutine's stop() through the Scheduler's this.                         *)
NoUseAfterDestroy == ~freedUse

(* A thread blocked on a condition variable whose predicate already holds *)
(* is woken: startAsync's cv_.wait once running_ is set, wait()'s          *)
(* quitCv_.wait once quit_ is set.  start() and joinThread set the flag    *)
(* and notify without holding mutex_.                                      *)
BlockedWithCondition ==
    \/ tp["M"] \in {"block1", "blocked1"} /\ running
    \/ tp["M"] \in {"wblock", "wblocked"} /\ quit

WokenWhenSignalled ==
    BlockedWithCondition ~> tp["M"] \notin {"block1", "blocked1", "wblock", "wblocked"}
=============================================================================
