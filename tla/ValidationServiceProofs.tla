----------------------- MODULE ValidationServiceProofs -----------------------
(***************************************************************************)
(* Proofs about ValidationService, for every set of jobs, every number of  *)
(* workers, both queue types and every maximum size.  What the queue does  *)
(* is taken from the lemmas of JobQueueProofs, instantiated as             *)
(* ValidationService instantiates the queue.                               *)
(***************************************************************************)
EXTENDS ValidationService, FiniteSetTheorems, TLAPS

QP == INSTANCE JobQueueProofs WITH Consumer <- Worker

-----------------------------------------------------------------------------
(* The inductive invariant.                                                *)

\* A worker is inside Pop exactly while the queue has it asleep or woken, and has a
\* job at hand exactly between a Pop that returned one and the end of processJob.
WorkersAgree ==
    \A w \in Worker :
       /\ workerPc[w] = "pop" <=> w \in waiting \cup woken
       /\ workerPc[w] = "job" <=> ret[w] \in Job

\* No worker has begun before Manager.Start.
Booted == mainPc = "boot" => \A w \in Worker : workerPc[w] = "new"

Queued(j) == \E i \in DOMAIN jobs : jobs[i] = j
InHand(j) == \E w \in Worker : ret[w] = j

\* What the queue accepted is queued, in a worker's hands or finished; the feeder
\* never has a deferred job, and a deferred job the queue refused is still scheduled.
Accounted ==
    /\ admitted \cap Deferred = {}
    /\ \A j \in Job : offer[j] = "accepted" => Queued(j) \/ InHand(j) \/ fate[j] # "new"
    /\ \A j \in Deferred : offer[j] \in {"full", "closed"} => j \in scheduled

IInv ==
    /\ TypeOK /\ Q!TypeOK /\ Q!ExactlyOnce
    /\ WorkersAgree /\ Booted /\ Accounted

-----------------------------------------------------------------------------
(* What the queue's methods do.                                            *)

\* What JobQueue assumes of its constants holds of the workers and the jobs.
LEMMA QueueAssumptions ==
    /\ QP!IsFiniteSet(Worker)
    /\ MaxSize \in Nat
    /\ Priority \in [Job -> Int] /\ CreatedAt \in [Job -> Nat]
    /\ {"none", "closed", "canceled"} \cap Job = {}
<1>1. IsFiniteSet(Worker)
  BY WorkerCountAssumption, FS_Interval DEF Worker
<1>2. QP!IsFiniteSet(Worker)
  BY <1>1 DEF IsFiniteSet, QP!IsFiniteSet
<1> QED  BY <1>2, MaxSizeAssumption, JobDataAssumption, JobIsNotError

\* The two instances of the queue are the same.
LEMMA SameQueue ==
    /\ Q!TypeOK <=> QP!TypeOK
    /\ Q!TypeOK' <=> QP!TypeOK'
    /\ Q!ExactlyOnce <=> QP!ExactlyOnce
    /\ Q!ExactlyOnce' <=> QP!ExactlyOnce'
    /\ Q!Errors = QP!Errors
    /\ Q!Eligible = QP!Eligible
    /\ Q!QueueInit <=> QP!QueueInit
<1>1. /\ Q!TypeOK <=> QP!TypeOK
      /\ Q!TypeOK' <=> QP!TypeOK'
  BY DEF Q!TypeOK, QP!TypeOK, Q!QueueTypeOK, QP!QueueTypeOK, Q!Offers, QP!Offers,
         Q!Errors, QP!Errors
<1>2. /\ Q!ExactlyOnce <=> QP!ExactlyOnce
      /\ Q!ExactlyOnce' <=> QP!ExactlyOnce'
  BY DEF Q!ExactlyOnce, QP!ExactlyOnce
<1>3. Q!Errors = QP!Errors
  BY DEF Q!Errors, QP!Errors
<1>4. Q!Eligible = QP!Eligible
  BY DEF Q!Eligible, QP!Eligible, Q!Less, QP!Less
<1>5. Q!QueueInit <=> QP!QueueInit
  BY DEF Q!QueueInit, QP!QueueInit
<1> QED  BY <1>1, <1>2, <1>3, <1>4, <1>5

\* So are their methods.
LEMMA SameMethods ==
    /\ \A j \in Job : Q!Push(j) <=> QP!Push(j)
    /\ \A w \in Worker : Q!PopLoop(w) <=> QP!PopLoop(w)
<1>1. ASSUME NEW j \in Job PROVE Q!Push(j) <=> QP!Push(j)
  BY DEF Q!Push, QP!Push, Q!Refuses, QP!Refuses, Q!Refusal, QP!Refusal, Q!Signal, QP!Signal
<1>2. ASSUME NEW w \in Worker PROVE Q!PopLoop(w) <=> QP!PopLoop(w)
  <2>1. \A s, i : Q!RemoveAt(s, i) = QP!RemoveAt(s, i)
    BY DEF Q!RemoveAt, QP!RemoveAt
  <2>2. Q!Pop_Take(w) <=> QP!Pop_Take(w)
    BY <2>1, SameQueue DEF Q!Pop_Take, QP!Pop_Take, Q!Pop_Return, QP!Pop_Return
  <2> QED
    BY <2>2 DEF Q!PopLoop, QP!PopLoop, Q!Pop_Wait, QP!Pop_Wait, Q!Pop_Canceled, QP!Pop_Canceled,
                Q!Pop_Closed, QP!Pop_Closed, Q!Pop_Return, QP!Pop_Return
<1> QED  BY <1>1, <1>2

\* Push keeps what is queued, puts an accepted job there and may only wake a worker.
LEMMA PushEffect ==
    ASSUME Q!TypeOK, Q!ExactlyOnce, NEW j \in Job, Q!Push(j)
    PROVE  /\ Q!TypeOK' /\ Q!ExactlyOnce'
           /\ offer'[j] # "new" /\ \A k \in Job \ {j} : offer'[k] = offer[k]
           /\ \A k \in Job : Queued(k) => Queued(k)'
           /\ offer'[j] = "accepted" => Queued(j)'
           /\ waiting' \cup woken' = waiting \cup woken
           /\ UNCHANGED <<ret, cancelled>>
<1>1. Q!TypeOK' /\ Q!ExactlyOnce'
  BY SameQueue, SameMethods, QueueAssumptions, QP!PushTypes, QP!PushOnce
<1>2. waiting' \cup woken' = waiting \cup woken /\ UNCHANGED <<ret, cancelled>>
  BY DEF Q!Push, Q!Signal
<1>3. offer'[j] # "new" /\ \A k \in Job \ {j} : offer'[k] = offer[k]
  BY DEF Q!Push, Q!Refusal, Q!TypeOK, Q!QueueTypeOK
<1>4. CASE Q!Refuses
  <2>1. jobs' = jobs /\ offer'[j] # "accepted"
    BY <1>4 DEF Q!Push, Q!Refusal, Q!TypeOK, Q!QueueTypeOK
  <2> QED  BY <1>1, <1>2, <1>3, <2>1 DEF Queued
<1>5. CASE ~Q!Refuses
  <2>1. jobs' = Append(jobs, j) /\ jobs \in Seq(Job)
    BY <1>5 DEF Q!Push, Q!TypeOK, Q!QueueTypeOK
  <2>2. /\ Len(jobs) + 1 \in DOMAIN jobs' /\ jobs'[Len(jobs) + 1] = j
        /\ \A i \in DOMAIN jobs : i \in DOMAIN jobs' /\ jobs'[i] = jobs[i]
    BY <2>1
  <2> QED  BY <1>1, <1>2, <1>3, <2>2 DEF Queued
<1> QED  BY <1>4, <1>5

\* A pass of Pop's loop leaves its worker asleep, with an error, or with a job that
\* was queued and the only one to leave the queue.
LEMMA PopEffect ==
    ASSUME Q!TypeOK, Q!ExactlyOnce, NEW w \in Worker, w \notin waiting, Q!PopLoop(w)
    PROVE  /\ Q!TypeOK' /\ Q!ExactlyOnce'
           /\ UNCHANGED <<offer, cancelled>>
           /\ \A v \in Worker \ {w} : /\ ret'[v] = ret[v]
                                      /\ v \in waiting' \cup woken' <=> v \in waiting \cup woken
           /\ \/ w \in waiting' /\ UNCHANGED <<jobs, ret>>
              \/ w \notin waiting' \cup woken' /\ ret'[w] \in Q!Errors /\ UNCHANGED jobs
              \/ /\ w \notin waiting' \cup woken' /\ ret'[w] \in Job
                 /\ \A k \in Job : Queued(k) => Queued(k)' \/ k = ret'[w]
<1>1. Q!TypeOK' /\ Q!ExactlyOnce'
  BY SameQueue, SameMethods, QueueAssumptions, QP!PopLoopTypes, QP!PopLoopOnce
<1>2. UNCHANGED <<offer, cancelled>>
  BY DEF Q!PopLoop
<1> USE DEF Q!TypeOK, Q!QueueTypeOK
<1>3. CASE Q!Pop_Wait(w)
  BY <1>1, <1>2, <1>3 DEF Q!Pop_Wait
<1>4. CASE Q!Pop_Canceled(w) \/ Q!Pop_Closed(w)
  BY <1>1, <1>2, <1>4 DEF Q!Pop_Canceled, Q!Pop_Closed, Q!Pop_Return, Q!Errors
<1>5. CASE Q!Pop_Take(w)
  <2>1. PICK i \in Q!Eligible : Q!Pop_Return(w, jobs[i]) /\ jobs' = Q!RemoveAt(jobs, i)
    BY <1>5 DEF Q!Pop_Take
  <2>2. i \in 1..Len(jobs) /\ jobs \in Seq(Job) /\ jobs[i] \in Job
    BY <2>1, SameQueue, QueueAssumptions, QP!EligibleIsPosition DEF QP!TypeOK
  <2>3. jobs' = QP!RemoveAt(jobs, i)
    BY <2>1 DEF Q!RemoveAt, QP!RemoveAt
  <2>4. QP!Range(jobs') = QP!Range(jobs) \ {jobs[i]}
    BY <2>2, <2>3, QueueAssumptions, QP!RemoveAtOnce DEF Q!ExactlyOnce
  <2>5. \A k \in Job : Queued(k) => Queued(k)' \/ k = jobs[i]
    BY <2>4 DEF QP!Range, Queued
  <2> QED  BY <1>1, <1>2, <2>1, <2>2, <2>5 DEF Q!Pop_Return
<1> QED  BY <1>3, <1>4, <1>5 DEF Q!PopLoop

-----------------------------------------------------------------------------
(* The steps keep the invariant.                                           *)

\* Every step that leaves the queue, the workers, the jobs' fates and who may have
\* which job alone.
LEMMA Elsewhere ==
    ASSUME IInv, TypeOK',
           UNCHANGED <<jobs, closed, waiting, woken, cancelled, offer, ret, workerPc, fate>>,
           admitted' \cap Deferred = {}, scheduled \subseteq scheduled',
           mainPc' = mainPc \/ mainPc' # "boot"
    PROVE  IInv'
<1>1. Q!TypeOK' /\ Q!ExactlyOnce'
  BY DEF IInv, Q!TypeOK, Q!QueueTypeOK, Q!ExactlyOnce
<1>2. WorkersAgree' /\ Booted'
  BY DEF IInv, WorkersAgree, Booted
<1>3. Accounted'
  BY DEF IInv, Accounted, Queued, InHand
<1> QED  BY <1>1, <1>2, <1>3 DEF IInv

\* The steps of main, the feeder, the scheduler and Manager.run that touch no job in
\* the queue or with a worker.
LEMMA QuietStep ==
    ASSUME IInv,
           \/ FeederTick \/ FeederDone \/ SchedulerTick \/ SchedulerChecked
           \/ RunSelect \/ RunMaintenance \/ StopBegin \/ StopScheduler \/ StopWorker
           \/ StopReturn
           \/ \E j \in Job : QueueValidationJob(j) \/ ScheduleValidationJob(j)
           \/ UNCHANGED vars
    PROVE  IInv'
<1>0. TypeOK /\ admitted \cap Deferred = {}
  BY DEF IInv, Accounted
<1> USE DEF queueVars, workerVars, managerVars, schedVars, mainVars
<1>q. ASSUME UNCHANGED queueVars PROVE Q!QueueTypeOK'
  BY <1>0, <1>q DEF TypeOK, Q!QueueTypeOK
<1>1. CASE FeederTick \/ FeederDone
  <2>1. TypeOK'  BY <1>0, <1>1, <1>q DEF FeederTick, FeederDone, TypeOK
  <2> QED  BY <1>0, <1>1, <2>1, Elsewhere DEF FeederTick, FeederDone
<1>2. CASE SchedulerTick \/ SchedulerChecked
  <2>1. TypeOK'  BY <1>0, <1>2, <1>q DEF SchedulerTick, SchedulerChecked, TypeOK
  <2> QED  BY <1>0, <1>2, <2>1, Elsewhere DEF SchedulerTick, SchedulerChecked
<1>3. CASE RunSelect \/ RunMaintenance
  <2>1. TypeOK'  BY <1>0, <1>3, <1>q DEF RunSelect, RunMaintenance, TypeOK
  <2> QED  BY <1>0, <1>3, <2>1, Elsewhere DEF RunSelect, RunMaintenance
<1>4. CASE StopBegin \/ StopReturn
  <2>1. TypeOK'  BY <1>0, <1>4, <1>q DEF StopBegin, StopReturn, TypeOK
  <2> QED  BY <1>0, <1>4, <2>1, Elsewhere DEF StopBegin, StopReturn
<1>5. CASE StopScheduler \/ StopWorker
  <2>1. workerStop' \subseteq Worker /\ stopIdx' \in Nat
    <3>1. CASE StopScheduler
      BY <3>1, WorkerCountAssumption DEF StopScheduler, Worker
    <3>2. CASE StopWorker
      <4>1. workerStop \subseteq Worker /\ stopIdx \in Nat /\ NumWorkers \in Nat
        BY <1>0, WorkerCountAssumption DEF TypeOK
      <4>2. CASE stopIdx < NumWorkers
        <5>1. stopIdx + 1 \in Worker
          BY <4>1, <4>2 DEF Worker
        <5> QED  BY <3>2, <4>1, <4>2, <5>1 DEF StopWorker
      <4>3. CASE ~(stopIdx < NumWorkers)
        BY <3>2, <4>1, <4>3 DEF StopWorker
      <4> QED  BY <4>2, <4>3
    <3> QED  BY <1>5, <3>1, <3>2
  <2>2. TypeOK'  BY <1>0, <1>5, <1>q, <2>1 DEF StopScheduler, StopWorker, TypeOK
  <2> QED  BY <1>0, <1>5, <2>2, Elsewhere DEF StopScheduler, StopWorker
<1>6. ASSUME NEW j \in Job, QueueValidationJob(j) \/ ScheduleValidationJob(j)
      PROVE  IInv'
  <2>1. TypeOK'
    BY <1>0, <1>6, <1>q DEF QueueValidationJob, ScheduleValidationJob, TypeOK
  <2> QED  BY <1>0, <1>6, <2>1, Elsewhere DEF QueueValidationJob, ScheduleValidationJob
<1>7. CASE UNCHANGED vars
  <2>1. TypeOK'  BY <1>0, <1>7, <1>q DEF vars, TypeOK
  <2> QED  BY <1>0, <1>7, <2>1, Elsewhere DEF vars
<1> QED  BY <1>1, <1>2, <1>3, <1>4, <1>5, <1>6, <1>7

\* Manager.Start finds no worker asleep and no job at hand; the signal cancels the
\* workers' context; Close wakes every sleeper.
LEMMA StartStopStep ==
    ASSUME IInv, Start \/ Shutdown \/ StopClose
    PROVE  IInv'
<1>0. TypeOK /\ Q!TypeOK /\ Q!ExactlyOnce
  BY DEF IInv
<1> USE DEF queueVars, workerVars, managerVars, schedVars, mainVars
<1>1. CASE Start
  <2>1. UNCHANGED <<jobs, closed, waiting, woken, cancelled, offer, ret, fate, admitted, scheduled>>
    BY <1>1 DEF Start
  <2>2. Q!TypeOK' /\ Q!ExactlyOnce'
    BY <1>0, <2>1 DEF Q!TypeOK, Q!QueueTypeOK, Q!ExactlyOnce
  <2>3. TypeOK'
    BY <1>0, <1>1, <2>2 DEF Start, TypeOK, Q!TypeOK
  <2>4. \A w \in Worker : w \notin waiting \cup woken /\ ret[w] \notin Job
    BY <1>1 DEF Start, IInv, Booted, WorkersAgree
  <2>5. WorkersAgree' /\ Booted'
    BY <1>1, <2>1, <2>4 DEF Start, WorkersAgree, Booted
  <2>6. Accounted'
    BY <2>1 DEF IInv, Accounted, Queued, InHand
  <2> QED  BY <2>2, <2>3, <2>5, <2>6 DEF IInv
<1>2. CASE Shutdown
  <2>1. /\ UNCHANGED <<jobs, closed, waiting, woken, offer, ret, workerPc, fate, admitted, scheduled>>
        /\ cancelled' = Worker /\ mainPc' = "stopping"
    BY <1>2 DEF Shutdown
  <2>2. Q!TypeOK' /\ Q!ExactlyOnce'
    BY <1>0, <2>1 DEF Q!TypeOK, Q!QueueTypeOK, Q!ExactlyOnce
  <2>3. TypeOK'
    BY <1>0, <1>2, <2>2 DEF Shutdown, TypeOK, Q!TypeOK
  <2>4. WorkersAgree' /\ Booted' /\ Accounted'
    BY <2>1 DEF IInv, WorkersAgree, Booted, Accounted, Queued, InHand
  <2> QED  BY <2>2, <2>3, <2>4 DEF IInv
<1>3. CASE StopClose
  <2>1. /\ UNCHANGED <<jobs, cancelled, offer, ret, workerPc, fate, admitted, scheduled, mainPc>>
        /\ waiting' \cup woken' = waiting \cup woken
    BY <1>3 DEF StopClose, Q!Close, Q!Blocked
  <2>2. Q!TypeOK'
    BY <1>0, <1>3 DEF StopClose, Q!Close, Q!Blocked, Q!TypeOK, Q!QueueTypeOK
  <2>3. Q!ExactlyOnce'
    BY <1>0, <2>1 DEF Q!ExactlyOnce
  <2>4. TypeOK'
    BY <1>0, <1>3, <2>2 DEF StopClose, TypeOK, Q!TypeOK
  <2>5. WorkersAgree' /\ Booted' /\ Accounted'
    BY <2>1 DEF IInv, WorkersAgree, Booted, Accounted, Queued, InHand
  <2> QED  BY <2>2, <2>3, <2>4, <2>5 DEF IInv
<1> QED  BY <1>1, <1>2, <1>3

\* The feeder's Push and the scheduler's Push.  Neither moves a worker; an accepted job
\* is queued, and a deferred job that is refused is left in the schedule.
LEMMA PushStep ==
    ASSUME IInv, NEW j \in Job, PushAdmitted(j) \/ SchedulerPush(j)
    PROVE  IInv'
<1>0. TypeOK /\ Q!TypeOK /\ Q!ExactlyOnce /\ Q!Push(j)
  BY DEF IInv, PushAdmitted, SchedulerPush
<1> USE DEF workerVars, managerVars, schedVars, mainVars
<1>1. /\ Q!TypeOK' /\ Q!ExactlyOnce'
      /\ offer'[j] # "new" /\ \A k \in Job \ {j} : offer'[k] = offer[k]
      /\ \A k \in Job : Queued(k) => Queued(k)'
      /\ offer'[j] = "accepted" => Queued(j)'
      /\ waiting' \cup woken' = waiting \cup woken
      /\ UNCHANGED <<ret, cancelled>>
  BY <1>0, PushEffect
<1>2. UNCHANGED <<workerPc, fate, mainPc>>
  BY DEF PushAdmitted, SchedulerPush
<1>3. TypeOK'
  BY <1>0, <1>1 DEF PushAdmitted, SchedulerPush, TypeOK, Q!TypeOK
<1>4. WorkersAgree' /\ Booted'
  BY <1>1, <1>2 DEF IInv, WorkersAgree, Booted
<1>5. \A k \in Job : offer'[k] = "accepted" => Queued(k)' \/ InHand(k)' \/ fate'[k] # "new"
  BY <1>1, <1>2 DEF IInv, Accounted, InHand
<1>6. /\ admitted' \cap Deferred = {}
      /\ \A k \in Deferred : offer'[k] \in {"full", "closed"} => k \in scheduled'
  <2>1. CASE PushAdmitted(j)
    BY <1>1, <2>1, DeferredAssumption DEF PushAdmitted, IInv, Accounted
  <2>2. CASE SchedulerPush(j)
    <3>1. j \in scheduled /\ admitted' = admitted
      BY <1>0, <2>2 DEF SchedulerPush, TypeOK
    <3>2. \A k \in Deferred : k \in scheduled /\ (k = j => offer'[j] # "accepted") => k \in scheduled'
      BY <2>2 DEF SchedulerPush
    <3> QED  BY <1>1, <3>1, <3>2, DeferredAssumption DEF IInv, Accounted
  <2> QED  BY <2>1, <2>2
<1> QED  BY <1>1, <1>3, <1>4, <1>5, <1>6 DEF IInv, Accounted

\* A pass of Pop's loop: the worker sleeps, ends, or holds the job that left the queue.
LEMMA PopStep ==
    ASSUME IInv, NEW w \in Worker, WorkerPop(w) \/ WorkerWake(w)
    PROVE  IInv'
<1>0. TypeOK /\ Q!TypeOK /\ Q!ExactlyOnce
  BY DEF IInv
<1> USE DEF managerVars, schedVars, mainVars
<1>1. w \notin waiting /\ Q!PopLoop(w) /\ AfterPop(w)
  BY <1>0 DEF WorkerPop, WorkerWake, Q!Pop, Q!Resume, Q!Blocked, Q!TypeOK
<1>2. ret[w] \notin Job
  BY DEF WorkerPop, WorkerWake, IInv, WorkersAgree
<1>3. /\ Q!TypeOK' /\ Q!ExactlyOnce'
      /\ UNCHANGED <<offer, cancelled>>
      /\ \A v \in Worker \ {w} : /\ ret'[v] = ret[v]
                                 /\ v \in waiting' \cup woken' <=> v \in waiting \cup woken
      /\ \/ w \in waiting' /\ UNCHANGED <<jobs, ret>>
         \/ w \notin waiting' \cup woken' /\ ret'[w] \in Q!Errors /\ UNCHANGED jobs
         \/ /\ w \notin waiting' \cup woken' /\ ret'[w] \in Job
            /\ \A k \in Job : Queued(k) => Queued(k)' \/ k = ret'[w]
  BY <1>0, <1>1, PopEffect
<1>4. \A e \in Q!Errors : e \notin Job
  BY JobIsNotError DEF Q!Errors
<1>5. /\ workerPc'[w] = IF w \in waiting' THEN "pop" ELSE IF ret'[w] \in Job THEN "job" ELSE "done"
      /\ \A v \in Worker \ {w} : workerPc'[v] = workerPc[v]
      /\ UNCHANGED <<fate, admitted, scheduled, mainPc>>
  BY <1>0, <1>1 DEF AfterPop, TypeOK
<1>6. TypeOK'
  BY <1>0, <1>1, <1>3 DEF AfterPop, TypeOK, Q!TypeOK
<1>7. WorkersAgree'
  BY <1>2, <1>3, <1>4, <1>5 DEF IInv, WorkersAgree
<1>8. Booted'
  BY <1>5 DEF IInv, Booted, WorkerPop, WorkerWake
<1>9. \A k \in Job : Queued(k) \/ InHand(k) => Queued(k)' \/ InHand(k)'
  BY <1>2, <1>3 DEF Queued, InHand
<1>10. Accounted'
  BY <1>3, <1>5, <1>9 DEF IInv, Accounted
<1> QED  BY <1>3, <1>6, <1>7, <1>8, <1>10 DEF IInv

\* The select of the run loop, and processJob, which gives its job a fate.
LEMMA RunLoopStep ==
    ASSUME IInv, NEW w \in Worker, WorkerSelect(w) \/ ProcessJob(w)
    PROVE  IInv'
<1>0. TypeOK /\ Q!TypeOK /\ Q!ExactlyOnce
  BY DEF IInv
<1> USE DEF queueVars, managerVars, schedVars, mainVars
<1>1. CASE WorkerSelect(w)
  <2>1. /\ UNCHANGED <<jobs, closed, waiting, woken, cancelled, offer, ret, fate, admitted, scheduled, mainPc>>
        /\ workerPc[w] = "select" /\ workerPc'[w] \in {"done", "call"}
        /\ \A v \in Worker \ {w} : workerPc'[v] = workerPc[v]
    BY <1>0, <1>1 DEF WorkerSelect, TypeOK
  <2>2. Q!TypeOK' /\ Q!ExactlyOnce'
    BY <1>0, <2>1 DEF Q!TypeOK, Q!QueueTypeOK, Q!ExactlyOnce
  <2>3. TypeOK'
    BY <1>0, <1>1, <2>2 DEF WorkerSelect, TypeOK, Q!TypeOK
  <2>4. WorkersAgree' /\ Booted' /\ Accounted'
    BY <2>1 DEF IInv, WorkersAgree, Booted, Accounted, Queued, InHand
  <2> QED  BY <2>2, <2>3, <2>4 DEF IInv
<1>2. CASE ProcessJob(w)
  <2>1. ret[w] \in Job
    BY <1>2 DEF ProcessJob, IInv, WorkersAgree
  <2>2. /\ UNCHANGED <<jobs, closed, waiting, woken, cancelled, offer, admitted, scheduled, mainPc>>
        /\ ret' = [ret EXCEPT ![w] = "none"]
        /\ workerPc[w] = "job" /\ workerPc'[w] = "select"
        /\ \A v \in Worker \ {w} : workerPc'[v] = workerPc[v]
    BY <1>0, <1>2 DEF ProcessJob, TypeOK
  <2>3. ret'[w] = "none" /\ \A v \in Worker \ {w} : ret'[v] = ret[v]
    BY <1>0, <2>2 DEF Q!TypeOK, Q!QueueTypeOK
  <2>4. "none" \notin Job
    BY JobIsNotError
  <2>5. Q!TypeOK'
    BY <1>0, <2>2 DEF Q!TypeOK, Q!QueueTypeOK, Q!Errors
  <2>6. Q!ExactlyOnce'
    BY <1>0, <2>2, <2>3, <2>4 DEF Q!ExactlyOnce
  <2>7. /\ fate'[ret[w]] # "new" /\ \A k \in Job : fate[k] # "new" => fate'[k] # "new"
        /\ fate' \in [Job -> {"new", "valid", "dropped", "marked_failed"}]
        /\ attempts' \in [Job -> Nat]
    BY <1>0, <1>2, <2>1 DEF ProcessJob, TypeOK
  <2>8. TypeOK'
    BY <1>0, <1>2, <2>5, <2>7 DEF ProcessJob, TypeOK, Q!TypeOK
  <2>9. WorkersAgree' /\ Booted'
    BY <2>2, <2>3, <2>4 DEF IInv, WorkersAgree, Booted
  <2>10. Accounted'
    BY <2>2, <2>3, <2>7 DEF IInv, Accounted, Queued, InHand
  <2> QED  BY <2>5, <2>6, <2>8, <2>9, <2>10 DEF IInv
<1> QED  BY <1>1, <1>2

LEMMA Inductive == Spec => []IInv
<1>1. Init => IInv
  <2> SUFFICES ASSUME Init PROVE IInv
    OBVIOUS
  <2>1. Q!TypeOK /\ Q!ExactlyOnce
    BY SameQueue, QueueAssumptions, QP!InitTypes, QP!InitOnce DEF Init
  <2>2. /\ waiting = {} /\ woken = {} /\ \A w \in Worker : ret[w] = "none"
        /\ \A j \in Job : offer[j] = "new"
    BY DEF Init, Q!QueueInit
  <2>3. "none" \notin Job
    BY JobIsNotError
  <2>4. TypeOK
    BY <2>1 DEF Init, TypeOK, Q!TypeOK
  <2>5. WorkersAgree /\ Booted /\ Accounted
    BY <2>2, <2>3, DeferredAssumption DEF Init, WorkersAgree, Booted, Accounted
  <2> QED  BY <2>1, <2>4, <2>5 DEF IInv
<1>2. IInv /\ [Next]_vars => IInv'
  BY QuietStep, StartStopStep, PushStep, PopStep, RunLoopStep
     DEF Next, Producers, Workers, Stop
<1> QED  BY <1>1, <1>2, PTL DEF Spec

-----------------------------------------------------------------------------
(* Theorems.                                                               *)

\* Every variable of the worker process keeps its type.
THEOREM TypeCorrect == Spec => []TypeOK
<1>1. IInv => TypeOK
  BY DEF IInv
<1> QED  BY <1>1, Inductive, PTL

\* The workers' run loops and the queue's wait set agree, and no two workers process
\* the same job: OneOwnerPerJob for every number of workers and jobs, through starting,
\* feeding, scheduling and shutting down.
THEOREM JobsHaveOneOwner == Spec => []OneOwnerPerJob
<1>1. IInv => OneOwnerPerJob
  BY DEF IInv, WorkersAgree, Q!ExactlyOnce, OneOwnerPerJob
<1> QED  BY <1>1, Inductive, PTL

\* Nothing that was given to the manager disappears between the caller, the schedule,
\* the queue and the workers: NoJobLost for every number of workers and jobs.
THEOREM JobsAreNotLost == Spec => []NoJobLost
<1>1. IInv => NoJobLost
  <2> SUFFICES ASSUME IInv, NEW j \in Job
      PROVE  \/ Fresh(j) \/ j \in admitted \/ j \in scheduled
             \/ j \notin Deferred /\ offer[j] \in {"full", "closed"}
             \/ \E i \in DOMAIN jobs : jobs[i] = j
             \/ \E w \in Worker : workerPc[w] = "job" /\ ret[w] = j
             \/ fate[j] # "new"
    BY DEF NoJobLost
  <2>1. offer[j] \in {"new", "accepted", "full", "closed"}
    BY DEF IInv, Q!TypeOK, Q!QueueTypeOK, Q!Offers
  <2>2. CASE offer[j] = "accepted"
    BY <2>2 DEF IInv, Accounted, Queued, InHand, WorkersAgree
  <2>3. CASE offer[j] \in {"full", "closed"}
    BY <2>3 DEF IInv, Accounted
  <2>4. CASE offer[j] = "new"
    BY <2>4 DEF Fresh
  <2> QED  BY <2>1, <2>2, <2>3, <2>4
<1> QED  BY <1>1, Inductive, PTL
=============================================================================
