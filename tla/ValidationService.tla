-------------------------- MODULE ValidationService --------------------------
(***************************************************************************)
(* The worker process: Manager (app/worker/manager.go) with its pool of    *)
(* ValidationWorkers (validation_worker.go), its JobScheduler and its      *)
(* queue (queue.go), run by cmd/worker/main.go, which feeds it the domains *)
(* that need validation and shuts it down on SIGTERM.  The queue is an     *)
(* instance of JobQueue whose consumers are the workers.                   *)
(***************************************************************************)
EXTENDS Integers, FiniteSets, Sequences

CONSTANTS
    Job,          \* the validation jobs that are ever created
    Deferred,     \* those created for ScheduleValidationJob; the feeder creates
                  \* the others
    NumWorkers,   \* WorkerConfig.WorkerCount
    MaxRetries,   \* ValidationConfig.MaxRetries
    QueueType, MaxSize, Priority, CreatedAt   \* see JobQueue

ASSUME WorkerCountAssumption == NumWorkers \in Nat \ {0}
ASSUME MaxRetriesAssumption  == MaxRetries \in Nat
ASSUME DeferredAssumption    == Deferred \subseteq Job
\* As in JobQueue: a job is a pointer, never equal to an error.
ASSUME MaxSizeAssumption     == MaxSize \in Nat
ASSUME JobDataAssumption     == Priority \in [Job -> Int] /\ CreatedAt \in [Job -> Nat]
ASSUME JobIsNotError         == {"none", "closed", "canceled"} \cap Job = {}

VARIABLES
    jobs, closed, waiting, woken, cancelled, offer, ret,   \* see JobQueue
    workerPc,     \* where each worker's run loop is
    workerStop,   \* the workers whose stopCh is closed
    fate,         \* what became of each job
    attempts,     \* ValidationJob.Attempts
    stopCh,       \* Manager.stopCh is closed
    running,      \* Manager.running
    stopPc,       \* how far Manager.Stop is; it holds m.mutex until it returns
    stopIdx,      \* the worker WorkerPool.Stop is stopping
    runPc,        \* Manager.run
    schedPc,      \* JobScheduler.run; js.mutex is held while it is "checking"
    scheduled,    \* JobScheduler.scheduled
    due,          \* the jobs the scheduler still has to push in this check
    feederPc,     \* main's goroutine that queues domains needing validation
    admitted,     \* jobs whose caller saw m.running and has not pushed yet
    mainPc        \* main

Worker == 1..NumWorkers

Q == INSTANCE JobQueue WITH Consumer <- Worker

queueVars   == <<jobs, closed, waiting, woken, cancelled, offer, ret>>
workerVars  == <<workerPc, workerStop, fate, attempts>>
managerVars == <<stopCh, running, stopPc, stopIdx, runPc>>
schedVars   == <<schedPc, scheduled, due>>
mainVars    == <<feederPc, admitted, mainPc>>
vars == <<queueVars, workerVars, managerVars, schedVars, mainVars>>

TypeOK ==
    /\ Q!QueueTypeOK
    /\ workerPc \in [Worker -> {"new", "select", "call", "pop", "job", "done"}]
    /\ workerStop \subseteq Worker
    /\ fate \in [Job -> {"new", "valid", "dropped", "marked_failed"}]
    /\ attempts \in [Job -> Nat]
    /\ stopCh \in BOOLEAN /\ running \in BOOLEAN
    /\ stopPc \in {"idle", "scheduler", "pool", "close", "wait", "returned"}
    /\ stopIdx \in Nat
    /\ runPc \in {"new", "select", "stats", "report", "exited"}
    /\ schedPc \in {"new", "select", "checking", "exited"}
    /\ scheduled \subseteq Job /\ due \subseteq scheduled
    /\ feederPc \in {"new", "select", "queueing", "exited"}
    /\ admitted \subseteq Job
    /\ mainPc \in {"boot", "serving", "stopping", "exit"}

Init ==
    /\ Q!QueueInit
    /\ workerPc = [w \in Worker |-> "new"]
    /\ workerStop = {}
    /\ fate = [j \in Job |-> "new"]
    /\ attempts = [j \in Job |-> 0]
    /\ stopCh = FALSE /\ running = FALSE
    /\ stopPc = "idle" /\ stopIdx = 0
    /\ runPc = "new" /\ schedPc = "new" /\ scheduled = {} /\ due = {}
    /\ feederPc = "new" /\ admitted = {} /\ mainPc = "boot"

\* main's context, shared by everything that Start was given.
CtxDone == cancelled # {}

\* m.mutex is held from the first to the last line of Manager.Stop.
MutexFree == stopPc \in {"idle", "returned"}

Fresh(j) == offer[j] = "new" /\ j \notin admitted /\ j \notin scheduled

-----------------------------------------------------------------------------
(* Manager.Start, with everything it starts, and main's own goroutine.     *)

Start ==
    /\ mainPc = "boot" /\ ~running
    /\ running' = TRUE
    /\ workerPc' = [w \in Worker |-> "select"]
    /\ schedPc' = "select"
    /\ runPc' = "select"
    /\ feederPc' = "select"
    /\ mainPc' = "serving"
    /\ UNCHANGED <<queueVars, workerStop, fate, attempts, stopCh, stopPc, stopIdx,
                   scheduled, due, admitted>>

-----------------------------------------------------------------------------
(* Producers.                                                              *)

\* The ticker fires and processDomainsNeedingValidation asks the repository; or
\* the context is done and the goroutine returns.
FeederTick ==
    /\ feederPc = "select"
    /\ \/ feederPc' = "queueing"
       \/ CtxDone /\ feederPc' = "exited"
    /\ UNCHANGED <<queueVars, workerVars, managerVars, schedVars, admitted, mainPc>>

\* QueueDomainValidation creates the job and QueueValidationJob reads m.running
\* without the mutex ...
QueueValidationJob(j) ==
    /\ feederPc = "queueing"
    /\ j \notin Deferred /\ Fresh(j) /\ admitted = {}
    /\ running
    /\ admitted' = {j}
    /\ UNCHANGED <<queueVars, workerVars, managerVars, schedVars, feederPc, mainPc>>

\* ... and pushes the job later; a refused job is only logged.
PushAdmitted(j) ==
    /\ j \in admitted
    /\ Q!Push(j)
    /\ admitted' = admitted \ {j}
    /\ UNCHANGED <<workerVars, managerVars, schedVars, feederPc, mainPc>>

\* The domains of this tick are exhausted.
FeederDone ==
    /\ feederPc = "queueing" /\ admitted = {}
    /\ feederPc' = "select"
    /\ UNCHANGED <<queueVars, workerVars, managerVars, schedVars, admitted, mainPc>>

\* ScheduleValidationJob and ScheduleJob, which needs js.mutex.
ScheduleValidationJob(j) ==
    /\ running /\ schedPc # "checking"
    /\ j \in Deferred /\ Fresh(j)
    /\ scheduled' = scheduled \cup {j}
    /\ UNCHANGED <<queueVars, workerVars, managerVars, schedPc, due, mainVars>>

\* JobScheduler.run: a tick finds the set D of due jobs, or the loop ends.
SchedulerTick ==
    /\ schedPc = "select"
    /\ \/ \E D \in SUBSET scheduled : due' = D /\ schedPc' = "checking"
       \/ (CtxDone \/ stopPc \notin {"idle", "scheduler"}) /\ schedPc' = "exited" /\ UNCHANGED due
    /\ UNCHANGED <<queueVars, workerVars, managerVars, scheduled, mainVars>>

\* checkScheduledJobs pushes the due jobs one by one; only the accepted ones
\* leave the schedule.
SchedulerPush(j) ==
    /\ schedPc = "checking" /\ j \in due
    /\ Q!Push(j)
    /\ due' = due \ {j}
    /\ scheduled' = IF offer'[j] = "accepted" THEN scheduled \ {j} ELSE scheduled
    /\ UNCHANGED <<workerVars, managerVars, schedPc, mainVars>>

SchedulerChecked ==
    /\ schedPc = "checking" /\ due = {}
    /\ schedPc' = "select"
    /\ UNCHANGED <<queueVars, workerVars, managerVars, scheduled, due, mainVars>>

-----------------------------------------------------------------------------
(* ValidationWorker.run.                                                   *)

\* The select: stop or a done context wins, otherwise the default branch.
WorkerSelect(w) ==
    /\ workerPc[w] = "select"
    /\ workerPc' = [workerPc EXCEPT ![w] =
                        IF w \in workerStop \/ CtxDone THEN "done" ELSE "call"]
    /\ UNCHANGED <<queueVars, workerStop, fate, attempts, managerVars, schedVars, mainVars>>

\* Where a pass of Pop's loop leaves the worker: asleep, with a job, or with one
\* of the two errors that end its run loop.
AfterPop(w) ==
    /\ workerPc' = [workerPc EXCEPT ![w] =
                        IF w \in waiting' THEN "pop"
                        ELSE IF ret'[w] \in Job THEN "job" ELSE "done"]
    /\ UNCHANGED <<workerStop, fate, attempts, managerVars, schedVars, mainVars>>

WorkerPop(w)  == workerPc[w] = "call" /\ Q!Pop(w) /\ AfterPop(w)
WorkerWake(w) == workerPc[w] = "pop" /\ Q!Resume(w) /\ AfterPop(w)

\* processJob: the validation returns, within ValidationTimeout.  A failed job
\* is marked failed once its attempts reach MaxRetries, and is otherwise only
\* logged: handleJobRetry puts it back nowhere.
ProcessJob(w) ==
    LET j == ret[w] IN
    /\ workerPc[w] = "job"
    /\ \/ fate' = [fate EXCEPT ![j] = "valid"] /\ UNCHANGED attempts
       \/ /\ attempts' = [attempts EXCEPT ![j] = @ + 1]
          /\ fate' = [fate EXCEPT ![j] =
                         IF attempts'[j] >= MaxRetries THEN "marked_failed" ELSE "dropped"]
    /\ workerPc' = [workerPc EXCEPT ![w] = "select"]
    /\ ret' = [ret EXCEPT ![w] = "none"]          \* job goes out of scope
    /\ UNCHANGED <<jobs, closed, waiting, woken, cancelled, offer, workerStop,
                   managerVars, schedVars, mainVars>>

-----------------------------------------------------------------------------
(* Manager.run: every CheckInterval the maintenance takes m.mutex twice,   *)
(* in updateStats and in GetDetailedStats.                                 *)

RunSelect_NoStop ==
    /\ runPc = "select"
    /\ runPc' = "stats"
    /\ UNCHANGED <<queueVars, workerVars, stopCh, running, stopPc, stopIdx, schedVars, mainVars>>

RunSelect ==
    /\ runPc = "select"
    /\ \/ runPc' = "stats"
       \/ (stopCh \/ CtxDone) /\ runPc' = "exited"
    /\ UNCHANGED <<queueVars, workerVars, stopCh, running, stopPc, stopIdx, schedVars, mainVars>>

RunMaintenance ==
    /\ MutexFree
    /\ \/ runPc = "stats" /\ runPc' = "report"
       \/ runPc = "report" /\ runPc' = "select"
    /\ UNCHANGED <<queueVars, workerVars, stopCh, running, stopPc, stopIdx, schedVars, mainVars>>

-----------------------------------------------------------------------------
(* Shutdown.                                                               *)

\* SIGTERM: main cancels the context ...
Shutdown ==
    /\ mainPc = "serving"
    /\ cancelled' = Worker
    /\ mainPc' = "stopping"
    /\ UNCHANGED <<jobs, closed, waiting, woken, offer, ret, workerVars, managerVars,
                   schedVars, feederPc, admitted>>

\* ... and calls Manager.Stop, which takes m.mutex and closes stopCh.
StopBegin ==
    /\ mainPc = "stopping" /\ stopPc = "idle"
    /\ running
    /\ stopCh' = TRUE
    /\ stopPc' = "scheduler"
    /\ UNCHANGED <<queueVars, workerVars, running, stopIdx, runPc, schedVars, mainVars>>

\* JobScheduler.Stop needs js.mutex.
StopScheduler ==
    /\ stopPc = "scheduler" /\ schedPc # "checking"
    /\ stopPc' = "pool" /\ stopIdx' = 1
    /\ workerStop' = {1}
    /\ UNCHANGED <<queueVars, workerPc, fate, attempts, stopCh, running, runPc, schedVars, mainVars>>

\* WorkerPool.Stop, one worker after the other: close its stopCh (here with the
\* step that reaches it) and wait for its doneCh.
StopWorker ==
    /\ stopPc = "pool"
    /\ workerPc[stopIdx] = "done"
    /\ IF stopIdx < NumWorkers
       THEN /\ stopIdx' = stopIdx + 1
            /\ workerStop' = workerStop \cup {stopIdx + 1}
            /\ UNCHANGED stopPc
       ELSE stopPc' = "close" /\ UNCHANGED <<stopIdx, workerStop>>
    /\ UNCHANGED <<queueVars, workerPc, fate, attempts, stopCh, running, runPc, schedVars, mainVars>>

StopClose ==
    /\ stopPc = "close"
    /\ Q!Close
    /\ stopPc' = "wait"
    /\ UNCHANGED <<workerVars, stopCh, running, stopIdx, runPc, schedVars, mainVars>>

\* <-m.doneCh; Stop returns to main, which exits.
StopReturn ==
    /\ stopPc = "wait" /\ runPc = "exited"
    /\ running' = FALSE
    /\ stopPc' = "returned"
    /\ mainPc' = "exit"
    /\ UNCHANGED <<queueVars, workerVars, stopCh, stopIdx, runPc, schedVars, feederPc, admitted>>

-----------------------------------------------------------------------------

Producers ==
    \/ FeederTick
    \/ FeederDone
    \/ \E j \in Job :
          \/ QueueValidationJob(j)
          \/ PushAdmitted(j)
          \/ ScheduleValidationJob(j)
          \/ SchedulerPush(j)
    \/ SchedulerTick
    \/ SchedulerChecked

Workers ==
    \E w \in Worker : WorkerSelect(w) \/ WorkerPop(w) \/ WorkerWake(w) \/ ProcessJob(w)

Stop == StopBegin \/ StopScheduler \/ StopWorker \/ StopClose \/ StopReturn

Next ==
    \/ Start
    \/ Producers
    \/ Workers
    \/ RunSelect
    \/ RunMaintenance
    \/ Shutdown
    \/ Stop

\* Every goroutine that can take its next step does: the Go scheduler runs all
\* of them, a validation ends by its timeout and a select with a closed channel
\* proceeds.  A select whose ticker keeps firing and whose stop channel is
\* closed picks the stop branch eventually (Go chooses at random), hence the
\* strong fairness on leaving the loop; a mutex that is freed again and again is
\* obtained (sync.Mutex is starvation-free), hence the one on Stop.  Starting,
\* feeding, scheduling and the signal are not obliged to happen.
Fairness ==
    /\ \A w \in Worker :
          WF_vars(WorkerSelect(w) \/ WorkerPop(w) \/ WorkerWake(w) \/ ProcessJob(w))
    /\ WF_vars(\E j \in Job : PushAdmitted(j))
    /\ WF_vars(SchedulerChecked \/ \E j \in Job : SchedulerPush(j))
    /\ WF_vars(RunMaintenance)
    /\ SF_vars(RunSelect /\ runPc' = "exited")
    /\ SF_vars(Stop)

Spec == Init /\ [][Next]_vars /\ Fairness

-----------------------------------------------------------------------------
(* Properties.                                                             *)

\* A worker that the pool's bookkeeping thinks is inside Pop is in the queue's
\* wait set, and one that holds a job is the only one that holds it.
OneOwnerPerJob ==
    /\ \A w \in Worker : workerPc[w] = "pop" <=> w \in waiting \cup woken
    /\ \A v, w \in Worker : (v # w /\ workerPc[v] = "job" /\ workerPc[w] = "job")
                                => ret[v] # ret[w]

\* No job disappears on the way: a job given to the manager is still scheduled,
\* about to be pushed, queued, refused to its caller, in a worker's hands, or
\* finished.  A scheduled job that the full or closed queue refuses has no caller to
\* tell and stays scheduled.
NoJobLost ==
    \A j \in Job :
        \/ Fresh(j)
        \/ j \in admitted
        \/ j \in scheduled
        \/ j \notin Deferred /\ offer[j] \in {"full", "closed"}
        \/ \E i \in DOMAIN jobs : jobs[i] = j
        \/ \E w \in Worker : workerPc[w] = "job" /\ ret[w] = j
        \/ fate[j] # "new"

\* While the service runs, every accepted job is eventually finished.
AcceptedJobsFinish ==
    \A j \in Job : offer[j] = "accepted" ~> (fate[j] # "new" \/ mainPc # "serving")

\* Stop can only hang in two ways: on a worker that sleeps in Pop, or on a
\* maintenance pass that waits for the mutex Stop holds.
StopHangsOnlyOn ==
    (stopPc \notin {"idle", "returned"})
        ~> \/ stopPc = "returned"
           \/ waiting # {}
           \/ runPc \in {"stats", "report"}

\* "Graceful shutdown: Cancel context to stop all operations" (main): after the
\* signal the process comes to its end.
ShutdownCompletes == mainPc = "stopping" ~> mainPc = "exit"
=============================================================================
