------------------------------ MODULE JobQueue ------------------------------
(***************************************************************************)
(* The in-memory job queue of app/worker/queue.go: PriorityQueue and       *)
(* InMemoryQueue, two types with the same locking protocol that differ in  *)
(* which queued job a Pop takes.  Every method runs under the queue's      *)
(* mutex, so a method is one atomic step, except Pop, which gives the      *)
(* mutex up in cond.Wait().  A Pop is therefore one step per pass through  *)
(* its loop: the first when it is called, the others each time the         *)
(* goroutine has been woken and gets the mutex back.                       *)
(***************************************************************************)
EXTENDS Integers, FiniteSets, SequencesExt

CONSTANTS
    Job,         \* the jobs that producers offer; every job is a fresh pointer
    Consumer,    \* the goroutines that call Pop
    QueueType,   \* WorkerConfig.QueueType: "priority", anything else is FIFO
    MaxSize,     \* maxSize; 0 means unlimited
    Priority,    \* ValidationJob.Priority
    CreatedAt    \* ValidationJob.CreatedAt

ASSUME ConsumerAssumption == IsFiniteSet(Consumer)
ASSUME MaxSizeAssumption  == MaxSize \in Nat
ASSUME JobDataAssumption  == Priority \in [Job -> Int] /\ CreatedAt \in [Job -> Nat]
\* A job is a pointer, a Pop error is an error value: never the same thing.
ASSUME JobIsNotError      == {"none", "closed", "canceled"} \cap Job = {}

VARIABLES
    jobs,        \* the slice pq.jobs, in order of arrival (the heap's array
                 \* layout is abstracted: only which job leaves matters)
    closed,      \* pq.closed
    waiting,     \* goroutines asleep in cond.Wait()
    woken,       \* goroutines signalled but not yet holding the mutex again
    cancelled,   \* goroutines whose context is done
    offer,       \* what the last Push of each job returned
    ret          \* what the last Pop of each consumer returned

queueVars == <<jobs, closed, waiting, woken, cancelled, offer, ret>>

Errors  == {"none", "closed", "canceled"}
Offers  == {"new", "accepted", "full", "closed"}
Blocked == waiting \cup woken

QueueTypeOK ==
    /\ jobs \in Seq(Job)
    /\ closed \in BOOLEAN
    /\ waiting \subseteq Consumer
    /\ woken \subseteq Consumer
    /\ cancelled \subseteq Consumer
    /\ offer \in [Job -> Offers]
    /\ ret \in [Consumer -> Job \cup Errors]

\* NewPriorityQueue, NewInMemoryQueue
QueueInit ==
    /\ jobs = <<>>
    /\ closed = FALSE
    /\ waiting = {}
    /\ woken = {}
    /\ cancelled = {}
    /\ offer = [j \in Job |-> "new"]
    /\ ret = [c \in Consumer |-> "none"]

-----------------------------------------------------------------------------
(* Which job leaves.                                                       *)

\* jobQueue.Less: higher priority first, then older.
Less(i, j) ==
    \/ Priority[i] > Priority[j]
    \/ Priority[i] = Priority[j] /\ CreatedAt[i] < CreatedAt[j]

\* The positions heap.Pop or q.jobs[0] may take: the first position of a FIFO,
\* any position no other job precedes in the order Less of a priority queue.
Eligible ==
    IF QueueType = "priority"
    THEN {i \in DOMAIN jobs : \A k \in DOMAIN jobs : ~Less(jobs[k], jobs[i])}
    ELSE {i \in DOMAIN jobs : i = 1}

-----------------------------------------------------------------------------
(* Operations.                                                             *)

Refusal == IF closed THEN "closed" ELSE "full"
Refuses == closed \/ (MaxSize > 0 /\ Len(jobs) >= MaxSize)

Signal_Missing == UNCHANGED <<waiting, woken>>

Signal_LeavesWaiting ==
    IF waiting = {}
    THEN UNCHANGED <<waiting, woken>>
    ELSE \E c \in waiting : woken' = woken \cup {c} /\ UNCHANGED waiting

\* cond.Signal(): one sleeper, if there is one, becomes runnable.
Signal ==
    IF waiting = {}
    THEN UNCHANGED <<waiting, woken>>
    ELSE \E c \in waiting : waiting' = waiting \ {c} /\ woken' = woken \cup {c}

Push_SignalOnlyWhenEmpty(j) ==
    /\ offer[j] # "accepted"
    /\ ~Refuses
    /\ offer' = [offer EXCEPT ![j] = "accepted"]
    /\ jobs' = Append(jobs, j)
    /\ IF jobs = <<>> THEN Signal ELSE UNCHANGED <<waiting, woken>>
    /\ UNCHANGED <<closed, cancelled, ret>>

Push_EvictsOldest(j) ==
    /\ offer[j] # "accepted"
    /\ ~closed
    /\ offer' = [offer EXCEPT ![j] = "accepted"]
    /\ jobs' = Append(IF Refuses THEN Tail(jobs) ELSE jobs, j)
    /\ Signal
    /\ UNCHANGED <<closed, cancelled, ret>>

\* Push (and Enqueue, which drops the error): a refused job may be offered
\* again, an accepted one is never offered twice.
Push(j) ==
    /\ offer[j] # "accepted"
    /\ IF Refuses
       THEN /\ offer' = [offer EXCEPT ![j] = Refusal]
            /\ UNCHANGED <<jobs, waiting, woken>>
       ELSE /\ offer' = [offer EXCEPT ![j] = "accepted"]
            /\ jobs' = Append(jobs, j)
            /\ Signal
    /\ UNCHANGED <<closed, cancelled, ret>>

\* One pass of Pop's loop and, when the loop ends, the rest of Pop.
Pop_Return(c, value) ==
    /\ ret' = [ret EXCEPT ![c] = value]
    /\ woken' = woken \ {c}
    /\ UNCHANGED waiting

Pop_Wait(c) ==
    /\ jobs = <<>> /\ ~closed /\ c \notin cancelled
    /\ waiting' = waiting \cup {c}
    /\ woken' = woken \ {c}
    /\ UNCHANGED <<jobs, ret>>

Pop_Canceled(c) ==
    /\ jobs = <<>> /\ ~closed /\ c \in cancelled
    /\ Pop_Return(c, "canceled")
    /\ UNCHANGED jobs

Pop_Closed(c) ==
    /\ jobs = <<>> /\ closed
    /\ Pop_Return(c, "closed")
    /\ UNCHANGED jobs

Pop_Take(c) ==
    \E i \in Eligible :
        /\ Pop_Return(c, jobs[i])
        /\ jobs' = RemoveAt(jobs, i)

Pop_KeepsJob(c) ==
    /\ \/ Pop_Wait(c)
       \/ Pop_Canceled(c)
       \/ Pop_Closed(c)
       \/ \E i \in Eligible : Pop_Return(c, jobs[i]) /\ UNCHANGED jobs
    /\ UNCHANGED <<closed, cancelled, offer>>

PopLoop(c) ==
    /\ \/ Pop_Wait(c)
       \/ Pop_Canceled(c)
       \/ Pop_Closed(c)
       \/ Pop_Take(c)
    /\ UNCHANGED <<closed, cancelled, offer>>

Pop(c)    == c \notin Blocked /\ PopLoop(c)
Resume(c) == c \in woken /\ PopLoop(c)

\* Dequeue: never blocks; nil ("none") when the queue is empty.
Dequeue(c) ==
    /\ c \notin Blocked
    /\ IF jobs = <<>>
       THEN ret' = [ret EXCEPT ![c] = "none"] /\ UNCHANGED jobs
       ELSE \E i \in Eligible :
                ret' = [ret EXCEPT ![c] = jobs[i]] /\ jobs' = RemoveAt(jobs, i)
    /\ UNCHANGED <<closed, waiting, woken, cancelled, offer>>

\* Clear: wakes nobody.
Clear ==
    /\ jobs' = <<>>
    /\ UNCHANGED <<closed, waiting, woken, cancelled, offer, ret>>

Close_SignalsOne ==
    /\ ~closed
    /\ closed' = TRUE
    /\ Signal
    /\ UNCHANGED <<jobs, cancelled, offer, ret>>

\* Close: idempotent; cond.Broadcast() makes every sleeper runnable.
Close ==
    /\ IF closed
       THEN UNCHANGED <<closed, waiting, woken>>
       ELSE closed' = TRUE /\ woken' = Blocked /\ waiting' = {}
    /\ UNCHANGED <<jobs, cancelled, offer, ret>>

\* The caller's context ends.  Nothing in the queue listens to it: only the
\* select at the top of Pop's loop looks.
Cancel(c) ==
    /\ cancelled' = cancelled \cup {c}
    /\ UNCHANGED <<jobs, closed, waiting, woken, offer, ret>>

-----------------------------------------------------------------------------

Next ==
    \/ \E j \in Job : Push(j)
    \/ \E c \in Consumer : Pop(c) \/ Resume(c) \/ Dequeue(c) \/ Cancel(c)
    \/ Clear
    \/ Close

\* A woken goroutine gets the mutex eventually (sync.Mutex is starvation-free);
\* nobody is obliged to call Push, Pop, Clear or Close.
Fairness == \A c \in Consumer : WF_queueVars(Resume(c))

Spec == QueueInit /\ [][Next]_queueVars /\ Fairness

-----------------------------------------------------------------------------
(* Properties.                                                             *)

\* Every variable keeps its type, and no goroutine is both asleep and woken.
TypeOK == QueueTypeOK /\ waiting \cap woken = {}

\* No lost wake-up.  While some goroutine sleeps in cond.Wait there is at least
\* one runnable, already woken goroutine for every queued job: Push signals once
\* per job and a woken goroutine that finds its job stolen by a newcomer only
\* goes back to sleep once the queue is empty.
NoLostWakeup == waiting # {} => Len(jobs) <= Cardinality(woken)

\* Close leaves nobody asleep and Pop never sleeps on a closed queue, so a
\* shutdown that closes the queue releases every worker.
NobodySleepsOnClosed == closed => waiting = {}

\* The queue never holds more than maxSize jobs (proved in JobQueueProofs).
SizeBounded == MaxSize > 0 => Len(jobs) <= MaxSize

\* A job is in at most one place: an accepted job is queued once or was taken
\* by at most one consumer, never both, and a refused job is nowhere.
ExactlyOnce ==
    /\ \A i, k \in DOMAIN jobs : jobs[i] = jobs[k] => i = k
    /\ \A i \in DOMAIN jobs : offer[jobs[i]] = "accepted"
    /\ \A c \in Consumer : ret[c] \in Job =>
           /\ offer[ret[c]] = "accepted"
           /\ \A i \in DOMAIN jobs : jobs[i] # ret[c]
           /\ \A d \in Consumer : ret[d] = ret[c] => d = c

\* Once the queue is closed every blocked Pop returns.
CloseReleases == \A c \in Consumer : closed ~> c \notin Blocked

-----------------------------------------------------------------------------
(* The queue implements a pool of work.                                    *)

Pool == INSTANCE WorkPool WITH
            pending <- Range(jobs), shut <- closed,
            blocked <- Blocked, result <- ret

\* Seen through its set of queued jobs and its set of blocked callers, the
\* queue with its condition variable is a WorkPool, its progress included:
\* sleeping and being woken are invisible steps.
ImplementsWorkPool == Pool!Spec
=============================================================================
