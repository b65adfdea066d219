---------------------------- MODULE EmailWorkers ----------------------------
(***************************************************************************)
(* The outgoing-mail pool: EmailPriorityQueue (app/worker/email_queue.go)  *)
(* and EmailWorkerPool with its EmailSenderWorkers                         *)
(* (app/worker/email_sender_worker.go).  Each worker has a mutex of its    *)
(* own: its Stop holds it until the worker's goroutine has ended, and the  *)
(* goroutine takes it to count what it did.                                *)
(*                                                                         *)
(* Among jobs of one priority the queue prefers the earliest ScheduledAt;  *)
(* the choice among them is left open, no property depends on it.          *)
(***************************************************************************)
EXTENDS Integers, FiniteSets

CONSTANTS
    Job,          \* email jobs, of either type
    NumWorkers,   \* the pool's worker count
    MaxAttempts,  \* EmailSendingJob.MaxAttempts
    MaxSize,      \* the queue's maxSize; 0 means unlimited
    Priority      \* EmailSendingJob.Priority

ASSUME WorkerCountAssumption == NumWorkers \in Nat \ {0}
ASSUME MaxAttemptsAssumption == MaxAttempts \in Nat \ {0}
ASSUME MaxSizeAssumption     == MaxSize \in Nat
ASSUME PriorityAssumption    == Priority \in [Job -> Int]

VARIABLES
    jobs,         \* the queue's heap
    closed,       \* the queue is closed
    waiting,      \* workers asleep in cond.Wait()
    woken,        \* workers signalled, not yet holding the queue's mutex
    expired,      \* workers whose PopWithTimeout context has run out
    place,        \* where each job is; "queued" exactly for the jobs in the heap
    attempts,     \* EmailSendingJob.Attempts
    pc,           \* where each worker's goroutine is
    has,          \* the job each worker holds
    stopCh,       \* the workers whose stopCh is closed
    ctxDone,      \* the context given to Start is done
    poolPc,       \* EmailWorkerPool.Start and Stop
    stopIdx,      \* the worker pool.Stop is at
    processed, successful, failed, retried    \* the pool's totals

Worker == 1..NumWorkers
NoJob  == "no job"

queueVars == <<jobs, closed, waiting, woken, expired>>
statVars  == <<processed, successful, failed, retried>>
poolVars  == <<stopCh, ctxDone, poolPc, stopIdx>>
vars == <<queueVars, place, attempts, pc, has, poolVars, statVars>>

Places == {"new", "queued", "held", "backoff", "sent", "failed", "refused", "cleared"}
Pcs    == {"new", "select", "call", "pop", "count", "send", "ok", "error", "requeued", "average", "done"}

TypeOK ==
    /\ jobs \subseteq Job
    /\ closed \in BOOLEAN
    /\ waiting \subseteq Worker /\ woken \subseteq Worker /\ expired \subseteq Worker
    /\ place \in [Job -> Places]
    /\ attempts \in [Job -> Nat]
    /\ pc \in [Worker -> Pcs]
    /\ has \in [Worker -> Job \cup {NoJob}]
    /\ stopCh \subseteq Worker
    /\ ctxDone \in BOOLEAN
    /\ poolPc \in {"new", "running", "lock", "wait", "stopped"}
    /\ stopIdx \in 0..NumWorkers
    /\ processed \in Nat /\ successful \in Nat /\ failed \in Nat /\ retried \in Nat

Init ==
    /\ jobs = {} /\ closed = FALSE
    /\ waiting = {} /\ woken = {} /\ expired = {}
    /\ place = [j \in Job |-> "new"]
    /\ attempts = [j \in Job |-> 0]
    /\ pc = [w \in Worker |-> "new"]
    /\ has = [w \in Worker |-> NoJob]
    /\ stopCh = {} /\ ctxDone = FALSE /\ poolPc = "new" /\ stopIdx = 0
    /\ processed = 0 /\ successful = 0 /\ failed = 0 /\ retried = 0

\* worker.Stop holds the worker's mutex while it waits for doneCh.
MutexFree(w) == ~(poolPc = "wait" /\ stopIdx = w)

Goto(w, l) == pc' = [pc EXCEPT ![w] = l]
Put(j, p)  == place' = [place EXCEPT ![j] = p]

-----------------------------------------------------------------------------
(* EmailPriorityQueue.                                                     *)

Signal_Missing == UNCHANGED <<waiting, woken>>

Signal ==
    IF waiting = {}
    THEN UNCHANGED <<waiting, woken>>
    ELSE \E w \in waiting : waiting' = waiting \ {w} /\ woken' = woken \cup {w}

Refuses == closed \/ (MaxSize > 0 /\ Cardinality(jobs) >= MaxSize)

Push(j) ==
    IF Refuses
    THEN Put(j, "refused") /\ UNCHANGED <<jobs, waiting, woken>>
    ELSE Put(j, "queued") /\ jobs' = jobs \cup {j} /\ Signal

\* heap.Pop: some job no other job precedes.
First == {j \in jobs : \A k \in jobs : Priority[k] <= Priority[j]}

PopLoop_KeepsJob(w) ==
    /\ \/ /\ jobs = {} /\ ~closed /\ w \notin expired
          /\ waiting' = waiting \cup {w} /\ woken' = woken \ {w}
          /\ Goto(w, "pop")
          /\ UNCHANGED <<place, has>>
       \/ /\ ~closed
          /\ \E j \in First :
                /\ Put(j, "held")
                /\ has' = [has EXCEPT ![w] = j]
          /\ woken' = woken \ {w} /\ UNCHANGED waiting
          /\ Goto(w, "count")
    /\ UNCHANGED <<jobs, closed, expired, attempts, poolVars, statVars>>

\* One pass of Pop's loop.  Unlike the validation queue, a closed queue hands
\* out nothing, whatever it still holds.
PopLoop(w) ==
    /\ \/ /\ jobs = {} /\ ~closed /\ w \notin expired          \* cond.Wait()
          /\ waiting' = waiting \cup {w} /\ woken' = woken \ {w}
          /\ Goto(w, "pop")
          /\ UNCHANGED <<jobs, place, has>>
       \/ /\ closed \/ (jobs = {} /\ w \in expired)            \* an error
          /\ woken' = woken \ {w} /\ UNCHANGED waiting
          /\ Goto(w, "select")
          /\ UNCHANGED <<jobs, place, has>>
       \/ /\ ~closed
          /\ \E j \in First :
                /\ jobs' = jobs \ {j}
                /\ Put(j, "held")
                /\ has' = [has EXCEPT ![w] = j]
          /\ woken' = woken \ {w} /\ UNCHANGED waiting
          /\ Goto(w, "count")
    /\ UNCHANGED <<closed, expired, attempts, poolVars, statVars>>

\* The one-second context of PopWithTimeout runs out; nothing wakes the sleeper.
Timeout(w) ==
    /\ pc[w] \in {"call", "pop"}
    /\ expired' = expired \cup {w}
    /\ UNCHANGED <<jobs, closed, waiting, woken, place, attempts, pc, has, poolVars, statVars>>

Clear ==
    /\ jobs' = {}
    /\ place' = [j \in Job |-> IF j \in jobs THEN "cleared" ELSE place[j]]
    /\ UNCHANGED <<closed, waiting, woken, expired, attempts, pc, has, poolVars, statVars>>

Close ==
    /\ ~closed
    /\ closed' = TRUE
    /\ woken' = waiting \cup woken /\ waiting' = {}
    /\ UNCHANGED <<jobs, expired, place, attempts, pc, has, poolVars, statVars>>

\* A client creates a job (CreateEmailSendingJob, CreateEmailRetryJob) and
\* pushes it.
Submit(j) ==
    /\ place[j] = "new"
    /\ Push(j)
    /\ UNCHANGED <<closed, expired, attempts, pc, has, poolVars, statVars>>

-----------------------------------------------------------------------------
(* EmailSenderWorker.run.                                                  *)

Select_IgnoresStop(w) ==
    /\ pc[w] = "select"
    /\ IF ctxDone
       THEN Goto(w, "done") /\ UNCHANGED expired
       ELSE Goto(w, "call") /\ expired' = expired \ {w}
    /\ UNCHANGED <<jobs, closed, waiting, woken, place, attempts, has, poolVars, statVars>>

Select(w) ==
    /\ pc[w] = "select"
    /\ IF w \in stopCh \/ ctxDone
       THEN Goto(w, "done") /\ UNCHANGED expired
       ELSE Goto(w, "call") /\ expired' = expired \ {w}
    /\ UNCHANGED <<jobs, closed, waiting, woken, place, attempts, has, poolVars, statVars>>

Call(w) == pc[w] = "call" /\ PopLoop(w)
Wake(w) == pc[w] = "pop" /\ w \in woken /\ PopLoop(w)

\* processEmailJob counts the job under the worker's mutex ...
Count(w) ==
    /\ pc[w] = "count" /\ MutexFree(w)
    /\ processed' = processed + 1
    /\ Goto(w, "send")
    /\ UNCHANGED <<queueVars, place, attempts, has, poolVars, successful, failed, retried>>

\* ... sends (SendEmail or ResendEmail, within the timeout) and counts the
\* attempt; a failed job with attempts left goes to a goroutine that sleeps.
Send(w) ==
    LET j == has[w] IN
    /\ pc[w] = "send"
    /\ attempts' = [attempts EXCEPT ![j] = @ + 1]
    /\ \/ Put(j, "sent") /\ Goto(w, "ok")
       \/ IF attempts'[j] < MaxAttempts
          THEN Put(j, "backoff") /\ Goto(w, "requeued")
          ELSE Put(j, "failed") /\ Goto(w, "error")
    /\ UNCHANGED <<queueVars, has, poolVars, statVars>>

Record_MissesRetries(w) ==
    /\ MutexFree(w)
    /\ \/ pc[w] = "ok" /\ successful' = successful + 1 /\ UNCHANGED failed
       \/ pc[w] = "error" /\ failed' = failed + 1 /\ UNCHANGED successful
       \/ pc[w] = "requeued" /\ UNCHANGED <<successful, failed>>
    /\ has' = [has EXCEPT ![w] = NoJob]
    /\ Goto(w, "select")
    /\ UNCHANGED <<queueVars, place, attempts, poolVars, processed, retried>>

\* handleJobSuccess and handleJobFailure update the counters under the mutex.
Record(w) ==
    /\ MutexFree(w)
    /\ \/ pc[w] = "ok" /\ successful' = successful + 1 /\ UNCHANGED <<failed, retried>>
       \/ pc[w] = "error" /\ failed' = failed + 1 /\ UNCHANGED <<successful, retried>>
       \/ pc[w] = "requeued" /\ retried' = retried + 1 /\ UNCHANGED <<successful, failed>>
    /\ has' = [has EXCEPT ![w] = NoJob]
    /\ Goto(w, IF pc[w] = "ok" THEN "select" ELSE "average")
    /\ UNCHANGED <<queueVars, place, attempts, poolVars, processed>>

\* handleJobFailure takes the mutex once more for the average time.
Average(w) ==
    /\ pc[w] = "average" /\ MutexFree(w)
    /\ Goto(w, "select")
    /\ UNCHANGED <<queueVars, place, attempts, has, poolVars, statVars>>

\* scheduleRetry's goroutine wakes up and pushes the job; a refused job is only
\* logged.
RetryPush(j) ==
    /\ place[j] = "backoff"
    /\ Push(j)
    /\ UNCHANGED <<closed, expired, attempts, pc, has, poolVars, statVars>>

-----------------------------------------------------------------------------
(* EmailWorkerPool.                                                        *)

PoolStart ==
    /\ poolPc = "new"
    /\ poolPc' = "running"
    /\ pc' = [w \in Worker |-> "select"]
    /\ UNCHANGED <<queueVars, place, attempts, has, stopCh, ctxDone, stopIdx, statVars>>

CancelContext ==
    /\ poolPc # "new" /\ ~ctxDone
    /\ ctxDone' = TRUE
    /\ UNCHANGED <<queueVars, place, attempts, pc, has, stopCh, poolPc, stopIdx, statVars>>

\* Stop: for each worker in turn take its mutex, close its stopCh, wait for its
\* doneCh, release.
PoolStop ==
    /\ \/ poolPc = "running" /\ poolPc' = "lock" /\ stopIdx' = 1 /\ UNCHANGED stopCh
       \/ poolPc = "lock" /\ poolPc' = "wait" /\ stopCh' = stopCh \cup {stopIdx} /\ UNCHANGED stopIdx
       \/ /\ poolPc = "wait" /\ pc[stopIdx] = "done"
          /\ IF stopIdx < NumWorkers
             THEN poolPc' = "lock" /\ stopIdx' = stopIdx + 1
             ELSE poolPc' = "stopped" /\ UNCHANGED stopIdx
          /\ UNCHANGED stopCh
    /\ UNCHANGED <<queueVars, place, attempts, pc, has, ctxDone, statVars>>

-----------------------------------------------------------------------------

WorkerStep(w) ==
    Select(w) \/ Call(w) \/ Wake(w) \/ Count(w) \/ Send(w) \/ Record(w) \/ Average(w)

Next ==
    \/ PoolStart \/ PoolStop \/ CancelContext
    \/ Clear \/ Close
    \/ \E j \in Job : Submit(j) \/ RetryPush(j)
    \/ \E w \in Worker :
          \/ Select(w) \/ Call(w) \/ Wake(w) \/ Timeout(w)
          \/ Count(w) \/ Send(w) \/ Record(w) \/ Average(w)

\* Goroutines that can run do run, a sending attempt ends by its timeout, a
\* sleep of the retry goroutine ends and a context with a deadline expires.
Fairness ==
    /\ \A w \in Worker : WF_vars(WorkerStep(w)) /\ WF_vars(pc[w] = "pop" /\ Timeout(w))
    /\ \A j \in Job : WF_vars(RetryPush(j))
    /\ WF_vars(PoolStop /\ poolPc # "running")

Spec == Init /\ [][Next]_vars /\ Fairness

-----------------------------------------------------------------------------
(* Properties.                                                             *)

\* A job is in exactly one place: queued iff it is in the heap, held by exactly
\* one worker, asleep before its retry, or finished; the retry goroutine and the
\* worker that spawned it never both own it.  Wherever it waits it has an attempt left,
\* and it is given up only when the last one is used.
OnePlace ==
    /\ \A j \in Job : place[j] = "queued" <=> j \in jobs
    /\ \A w \in Worker : pc[w] \in {"count", "send"} => place[has[w]] = "held"
    /\ \A j \in Job : place[j] = "held" =>
          Cardinality({w \in Worker : has[w] = j /\ pc[w] \in {"count", "send"}}) = 1
    /\ \A j \in Job :
          /\ place[j] \in {"new", "queued", "held", "backoff"} => attempts[j] < MaxAttempts
          /\ place[j] = "failed" => attempts[j] = MaxAttempts

\* The pool's counters balance: every job counted as processed is successful,
\* failed, retried, or still between its two counter updates.
StatsBalance ==
    processed = successful + failed + retried
                + Cardinality({w \in Worker : pc[w] \in {"send", "ok", "error", "requeued"}})

\* While the pool is up and its queue open, every submitted job is eventually
\* sent, given up, refused by a full queue on its way back, or cleared.
JobsFinish ==
    \A j \in Job :
        place[j] = "queued" ~>
            \/ place[j] \in {"sent", "failed", "refused", "cleared"}
            \/ closed \/ ctxDone \/ poolPc # "running"

\* The pool's Stop can only hang in two ways: on a worker asleep in Pop, or on a
\* worker that has a job to count and waits for the mutex that Stop itself holds.
StopHangsOnlyOn ==
    poolPc \in {"lock", "wait"}
        ~> \/ poolPc = "stopped"
           \/ waiting # {}
           \/ \E w \in Worker : stopIdx = w /\ pc[w] \in {"count", "ok", "error", "requeued", "average"}

=============================================================================
