------------------------- MODULE EmailWorkersProofs -------------------------
(***************************************************************************)
(* Proofs about EmailWorkers, for every set of jobs, every number of       *)
(* workers and attempts, every capacity and all priorities.                *)
(***************************************************************************)
EXTENDS EmailWorkers, FiniteSetTheorems, TLAPS

-----------------------------------------------------------------------------
(* The inductive invariant.                                                *)

\* No goroutine has begun before Start, and Stop is at one of the workers.
Booted ==
    /\ poolPc = "new" => \A w \in Worker : pc[w] = "new"
    /\ poolPc \in {"lock", "wait"} => stopIdx \in Worker

\* A worker between its Pop and the end of its sending attempt.
Holds(w) == pc[w] \in {"count", "send"}

\* The heap holds the queued jobs, and a job that is held is held by one worker.
OnePlaceEach ==
    /\ \A j \in Job : place[j] = "queued" <=> j \in jobs
    /\ \A w \in Worker : Holds(w) => has[w] \in Job /\ place[has[w]] = "held"
    /\ \A j \in Job : place[j] = "held" => \E w \in Worker : Holds(w) /\ has[w] = j
    /\ \A v, w \in Worker : Holds(v) /\ Holds(w) /\ has[v] = has[w] => v = w

\* A job that may still be sent has an attempt left.
AttemptsLeft ==
    \A j \in Job :
       /\ place[j] \in {"new", "queued", "held", "backoff"} => attempts[j] < MaxAttempts
       /\ place[j] = "failed" => attempts[j] = MaxAttempts

IInv == TypeOK /\ Booted /\ OnePlaceEach /\ AttemptsLeft

-----------------------------------------------------------------------------
(* Type correctness.                                                       *)

\* The queue's own steps: a job goes in and at most one sleeper is woken.
LEMMA PushTypes ==
    ASSUME TypeOK, NEW j \in Job, Push(j)
    PROVE  /\ jobs' \subseteq Job /\ place' \in [Job -> Places]
           /\ waiting' \subseteq Worker /\ woken' \subseteq Worker
<1>1. CASE Refuses
  BY <1>1 DEF Push, Put, TypeOK, Places
<1>2. CASE ~Refuses
  <2>1. jobs' \subseteq Job /\ place' \in [Job -> Places]
    BY <1>2 DEF Push, Put, TypeOK, Places
  <2>2. waiting' \subseteq Worker /\ woken' \subseteq Worker
    BY <1>2 DEF Push, Signal, TypeOK
  <2> QED  BY <2>1, <2>2
<1> QED  BY <1>1, <1>2

\* One pass of Pop's loop keeps the types.
LEMMA PopLoopTypes ==
    ASSUME TypeOK, NEW w \in Worker, PopLoop(w)
    PROVE  TypeOK'
<1>1. /\ jobs' \subseteq Job /\ place' \in [Job -> Places]
      /\ has' \in [Worker -> Job \cup {NoJob}]
  BY DEF PopLoop, Put, First, TypeOK, Places
<1>2. pc' \in [Worker -> Pcs] /\ waiting' \subseteq Worker /\ woken' \subseteq Worker
  BY DEF PopLoop, Goto, TypeOK, Pcs
<1>3. UNCHANGED <<closed, expired, attempts, poolVars, statVars>>
  BY DEF PopLoop
<1> QED  BY <1>1, <1>2, <1>3 DEF TypeOK, poolVars, statVars

\* A worker that sends has a job to send.
SendersHaveJobs == \A w \in Worker : Holds(w) => has[w] \in Job

LEMMA TypeStep ==
    ASSUME TypeOK, Booted, SendersHaveJobs, [Next]_vars
    PROVE  TypeOK'
<1> USE WorkerCountAssumption
<1>1. CASE PoolStart
  BY <1>1 DEF PoolStart, TypeOK, Pcs, queueVars, statVars
<1>2. CASE PoolStop
  <2>1. stopCh' \subseteq Worker
    BY <1>2 DEF PoolStop, TypeOK, Booted
  <2>2. poolPc' \in {"new", "running", "lock", "wait", "stopped"} /\ stopIdx' \in 0..NumWorkers
    BY <1>2 DEF PoolStop, TypeOK, Booted, Worker
  <2> QED  BY <1>2, <2>1, <2>2 DEF PoolStop, TypeOK, queueVars, statVars
<1>3. CASE CancelContext
  BY <1>3 DEF CancelContext, TypeOK, queueVars, statVars
<1>4. CASE Clear
  BY <1>4 DEF Clear, TypeOK, Places, poolVars, statVars
<1>5. CASE Close
  BY <1>5 DEF Close, TypeOK, poolVars, statVars
<1>6. ASSUME NEW j \in Job, Submit(j) \/ RetryPush(j) PROVE TypeOK'
  BY <1>6, PushTypes DEF Submit, RetryPush, TypeOK, poolVars, statVars
<1>7. ASSUME NEW w \in Worker, Select(w) PROVE TypeOK'
  BY <1>7 DEF Select, Goto, TypeOK, Pcs, poolVars, statVars
<1>8. ASSUME NEW w \in Worker, Call(w) \/ Wake(w) PROVE TypeOK'
  BY <1>8, PopLoopTypes DEF Call, Wake
<1>9. ASSUME NEW w \in Worker, Timeout(w) PROVE TypeOK'
  BY <1>9 DEF Timeout, TypeOK, poolVars, statVars
<1>10. ASSUME NEW w \in Worker, Count(w) PROVE TypeOK'
  BY <1>10 DEF Count, Goto, TypeOK, Pcs, queueVars, poolVars
<1>11. ASSUME NEW w \in Worker, Send(w) PROVE TypeOK'
  <2>1. has[w] \in Job
    BY <1>11 DEF Send, SendersHaveJobs, Holds
  <2>2. attempts' \in [Job -> Nat]
    BY <1>11, <2>1 DEF Send, TypeOK
  <2>3. place' \in [Job -> Places] /\ pc' \in [Worker -> Pcs]
    BY <1>11, <2>1 DEF Send, Put, Goto, TypeOK, Places, Pcs
  <2> QED  BY <1>11, <2>2, <2>3 DEF Send, TypeOK, queueVars, poolVars, statVars
<1>12. ASSUME NEW w \in Worker, Record(w) PROVE TypeOK'
  <2>1. pc' \in [Worker -> Pcs] /\ has' \in [Worker -> Job \cup {NoJob}]
    BY <1>12 DEF Record, Goto, TypeOK, Pcs
  <2>2. successful' \in Nat /\ failed' \in Nat /\ retried' \in Nat
    BY <1>12 DEF Record, TypeOK
  <2> QED  BY <1>12, <2>1, <2>2 DEF Record, TypeOK, queueVars, poolVars
<1>13. ASSUME NEW w \in Worker, Average(w) PROVE TypeOK'
  BY <1>13 DEF Average, Goto, TypeOK, Pcs, queueVars, poolVars, statVars
<1>14. CASE UNCHANGED vars
  BY <1>14 DEF vars, TypeOK, queueVars, poolVars, statVars
<1> QED
  BY <1>1, <1>2, <1>3, <1>4, <1>5, <1>6, <1>7, <1>8, <1>9, <1>10, <1>11, <1>12,
     <1>13, <1>14 DEF Next

-----------------------------------------------------------------------------
(* Workers and Stop.                                                       *)

\* What a worker's own step does: it moves that worker's goroutine, which had begun,
\* and leaves Start and Stop alone.
LEMMA WorkerMoves ==
    ASSUME TypeOK, NEW w \in Worker, WorkerStep(w)
    PROVE  /\ pc[w] # "new"
           /\ UNCHANGED <<poolPc, stopIdx>>
           /\ \E l \in Pcs : pc' = [pc EXCEPT ![w] = l]
<1>1. CASE Call(w) \/ Wake(w)
  BY <1>1 DEF Call, Wake, PopLoop, Goto, Pcs, poolVars
<1>2. CASE Select(w) \/ Count(w) \/ Average(w)
  BY <1>2 DEF Select, Count, Average, Goto, Pcs, poolVars
<1>3. CASE Send(w)
  BY <1>3 DEF Send, Goto, Pcs, poolVars
<1>4. CASE Record(w)
  BY <1>4 DEF Record, Goto, Pcs, poolVars
<1> QED  BY <1>1, <1>2, <1>3, <1>4 DEF WorkerStep

LEMMA BootedStep ==
    ASSUME TypeOK, Booted, [Next]_vars
    PROVE  Booted'
<1> USE WorkerCountAssumption
<1>1. CASE PoolStart
  BY <1>1 DEF PoolStart, Booted
<1>2. CASE PoolStop
  BY <1>2 DEF PoolStop, Booted, TypeOK, Worker
<1>3. CASE CancelContext
  BY <1>3 DEF CancelContext, Booted
<1>4. CASE Clear \/ Close
  BY <1>4 DEF Clear, Close, Booted, poolVars
<1>5. ASSUME NEW j \in Job, Submit(j) \/ RetryPush(j) PROVE Booted'
  BY <1>5 DEF Submit, RetryPush, Booted, poolVars
<1>6. ASSUME NEW w \in Worker, Timeout(w) PROVE Booted'
  BY <1>6 DEF Timeout, Booted, poolVars
<1>7. ASSUME NEW w \in Worker, WorkerStep(w) PROVE Booted'
  BY <1>7, WorkerMoves DEF Booted
<1>8. CASE UNCHANGED vars
  BY <1>8 DEF vars, Booted, poolVars
<1> QED
  BY <1>1, <1>2, <1>3, <1>4, <1>5, <1>6, <1>7, <1>8 DEF Next, WorkerStep

-----------------------------------------------------------------------------
(* Where a job is.                                                         *)

\* A step that moves no job and no worker into or out of its sending attempt.
LEMMA PlacesFrame ==
    ASSUME OnePlaceEach, AttemptsLeft, UNCHANGED <<jobs, place, attempts>>,
           \A w \in Worker : (Holds(w) \/ Holds(w)') => pc'[w] \in {"count", "send"} /\ Holds(w) /\ has'[w] = has[w]
    PROVE  OnePlaceEach' /\ AttemptsLeft'
BY DEF OnePlaceEach, AttemptsLeft, Holds

\* A push puts a job that nobody holds into the heap, or refuses it.
LEMMA PushPlaces ==
    ASSUME TypeOK, OnePlaceEach, AttemptsLeft, NEW j \in Job, Push(j),
           place[j] \in {"new", "backoff"}, UNCHANGED <<attempts, pc, has>>
    PROVE  OnePlaceEach' /\ AttemptsLeft'
<1>1. /\ place'[j] \in {"queued", "refused"}
      /\ \A k \in Job \ {j} : place'[k] = place[k]
      /\ jobs' = IF place'[j] = "queued" THEN jobs \cup {j} ELSE jobs
  BY DEF Push, Put, TypeOK
<1>2. j \notin jobs /\ \A w \in Worker : Holds(w) => has[w] # j
  BY DEF OnePlaceEach
<1>3. AttemptsLeft'
  BY <1>1 DEF AttemptsLeft
<1>4. OnePlaceEach'
  BY <1>1, <1>2 DEF OnePlaceEach, Holds
<1> QED  BY <1>3, <1>4

\* A pass of Pop's loop by a worker with no job: it sleeps, fails, or holds one job of
\* the heap.
LEMMA PopPlaces ==
    ASSUME TypeOK, OnePlaceEach, AttemptsLeft, NEW w \in Worker, ~Holds(w), PopLoop(w)
    PROVE  OnePlaceEach' /\ AttemptsLeft'
<1>1. CASE UNCHANGED <<jobs, place, has>> /\ (Goto(w, "pop") \/ Goto(w, "select"))
  <2>1. \A v \in Worker : (Holds(v) \/ Holds(v)') => pc'[v] = pc[v]
    BY <1>1 DEF Goto, Holds, TypeOK
  <2>2. UNCHANGED <<jobs, place, attempts, has>>
    BY <1>1 DEF PopLoop
  <2> QED  BY <2>1, <2>2, PlacesFrame DEF Holds
<1>2. ASSUME NEW j \in First, jobs' = jobs \ {j}, Put(j, "held"),
             has' = [has EXCEPT ![w] = j], Goto(w, "count")
      PROVE  OnePlaceEach' /\ AttemptsLeft'
  <2>1. j \in jobs /\ j \in Job /\ place[j] = "queued" /\ attempts' = attempts
    BY <1>2 DEF First, TypeOK, OnePlaceEach, PopLoop
  <2>2. place'[j] = "held" /\ \A k \in Job \ {j} : place'[k] = place[k]
    BY <1>2, <2>1 DEF Put, TypeOK
  <2>3. /\ has'[w] = j /\ pc'[w] = "count"
        /\ \A v \in Worker \ {w} : has'[v] = has[v] /\ pc'[v] = pc[v]
    BY <1>2 DEF Goto, TypeOK
  <2>4. \A v \in Worker : Holds(v) => has[v] # j
    BY <2>1 DEF OnePlaceEach
  <2>5. Holds(w)' /\ \A v \in Worker \ {w} : Holds(v)' <=> Holds(v)
    BY <2>3 DEF Holds
  <2>6. AttemptsLeft'
    BY <2>1, <2>2 DEF AttemptsLeft
  <2>7. \A k \in Job : place'[k] = "queued" <=> k \in jobs'
    BY <1>2, <2>2 DEF OnePlaceEach
  <2>8. \A v \in Worker : Holds(v)' => has'[v] \in Job /\ place'[has'[v]] = "held"
    BY <2>1, <2>2, <2>3, <2>4, <2>5 DEF OnePlaceEach
  <2>9. ASSUME NEW k \in Job, place'[k] = "held"
        PROVE  \E v \in Worker : Holds(v)' /\ has'[v] = k
    <3>1. CASE k = j  BY <2>3, <2>5, <3>1
    <3>2. CASE k # j
      <4>1. PICK v \in Worker : Holds(v) /\ has[v] = k
        BY <2>2, <2>9, <3>2 DEF OnePlaceEach
      <4>2. v # w
        BY <4>1
      <4> QED  BY <2>3, <2>5, <4>1, <4>2
    <3> QED  BY <3>1, <3>2
  <2>10. \A u, v \in Worker : Holds(u)' /\ Holds(v)' /\ has'[u] = has'[v] => u = v
    BY <2>3, <2>4, <2>5 DEF OnePlaceEach
  <2> QED  BY <2>6, <2>7, <2>8, <2>9, <2>10 DEF OnePlaceEach
<1> QED  BY <1>1, <1>2 DEF PopLoop

\* The end of a sending attempt: the worker lets go of its job, which is sent, given up
\* or left to the retry goroutine.
LEMMA SendPlaces ==
    ASSUME TypeOK, OnePlaceEach, AttemptsLeft, NEW w \in Worker, Send(w)
    PROVE  OnePlaceEach' /\ AttemptsLeft'
<1> USE MaxAttemptsAssumption
<1> DEFINE j == has[w]
<1>1. Holds(w) /\ j \in Job /\ place[j] = "held" /\ attempts[j] < MaxAttempts
  BY DEF Send, Holds, OnePlaceEach, AttemptsLeft
<1>2. /\ attempts[j] \in Nat /\ attempts'[j] = attempts[j] + 1
      /\ \A k \in Job \ {j} : attempts'[k] = attempts[k]
      /\ jobs' = jobs /\ has' = has
  BY <1>1 DEF Send, TypeOK, queueVars
<1>3. /\ \A k \in Job \ {j} : place'[k] = place[k]
      /\ \/ place'[j] = "sent"
         \/ place'[j] = "backoff" /\ attempts'[j] < MaxAttempts
         \/ place'[j] = "failed" /\ ~(attempts'[j] < MaxAttempts)
  BY <1>1 DEF Send, Put, TypeOK
<1>4. ~Holds(w)' /\ \A v \in Worker \ {w} : pc'[v] = pc[v]
  BY DEF Send, Goto, Holds, TypeOK
<1>5. \A v \in Worker \ {w} : (Holds(v)' <=> Holds(v)) /\ (Holds(v) => has[v] # j)
  BY <1>1, <1>4 DEF Holds, OnePlaceEach
<1> HIDE DEF j
<1>6. AttemptsLeft'
  <2>1. ASSUME NEW k \in Job
        PROVE  /\ place'[k] \in {"new", "queued", "held", "backoff"} => attempts'[k] < MaxAttempts
               /\ place'[k] = "failed" => attempts'[k] = MaxAttempts
    <3>1. CASE k = j  BY <1>1, <1>2, <1>3, <3>1
    <3>2. CASE k # j  BY <1>2, <1>3, <3>2 DEF AttemptsLeft
    <3> QED  BY <3>1, <3>2
  <2> QED  BY <2>1 DEF AttemptsLeft
<1>7. \A k \in Job : place'[k] = "queued" <=> k \in jobs'
  BY <1>1, <1>2, <1>3 DEF OnePlaceEach
<1>8. \A v \in Worker : Holds(v)' => has'[v] \in Job /\ place'[has'[v]] = "held"
  BY <1>2, <1>3, <1>4, <1>5 DEF OnePlaceEach
<1>9. ASSUME NEW k \in Job, place'[k] = "held"
      PROVE  \E v \in Worker : Holds(v)' /\ has'[v] = k
  <2>1. k # j /\ place[k] = "held"
    BY <1>3, <1>9
  <2>2. PICK v \in Worker : Holds(v) /\ has[v] = k
    BY <2>1 DEF OnePlaceEach
  <2>3. v # w
    BY <2>1, <2>2 DEF j
  <2> QED  BY <1>2, <1>5, <2>2, <2>3
<1>10. \A u, v \in Worker : Holds(u)' /\ Holds(v)' /\ has'[u] = has'[v] => u = v
  BY <1>2, <1>4, <1>5 DEF OnePlaceEach
<1> QED  BY <1>6, <1>7, <1>8, <1>9, <1>10 DEF OnePlaceEach

LEMMA PlacesStep ==
    ASSUME TypeOK, Booted, OnePlaceEach, AttemptsLeft, [Next]_vars
    PROVE  OnePlaceEach' /\ AttemptsLeft'
<1>1. CASE PoolStart
  <2>1. \A w \in Worker : ~Holds(w) /\ ~Holds(w)'
    BY <1>1 DEF PoolStart, Booted, Holds
  <2> QED  BY <1>1, <2>1, PlacesFrame DEF PoolStart, queueVars
<1>2. CASE PoolStop \/ CancelContext
  BY <1>2, PlacesFrame DEF PoolStop, CancelContext, queueVars, Holds
<1>3. CASE Clear
  <2>1. \A j \in Job : place'[j] = IF j \in jobs THEN "cleared" ELSE place[j]
    BY <1>3 DEF Clear
  <2>2. jobs' = {} /\ UNCHANGED <<attempts, pc, has>>
    BY <1>3 DEF Clear
  <2>3. \A w \in Worker : Holds(w) => place'[has[w]] = "held"
    BY <2>1 DEF OnePlaceEach
  <2> QED  BY <2>1, <2>2, <2>3 DEF OnePlaceEach, AttemptsLeft, Holds
<1>4. CASE Close
  BY <1>4, PlacesFrame DEF Close, Holds
<1>5. ASSUME NEW j \in Job, Submit(j) \/ RetryPush(j)
      PROVE  OnePlaceEach' /\ AttemptsLeft'
  BY <1>5, PushPlaces DEF Submit, RetryPush
<1>6. ASSUME NEW w \in Worker, Call(w) \/ Wake(w)
      PROVE  OnePlaceEach' /\ AttemptsLeft'
  BY <1>6, PopPlaces DEF Call, Wake, Holds
<1>7. ASSUME NEW w \in Worker, Select(w) \/ Count(w) \/ Average(w) \/ Record(w)
      PROVE  OnePlaceEach' /\ AttemptsLeft'
  <2>1. UNCHANGED <<jobs, place, attempts>>
    BY <1>7 DEF Select, Count, Average, Record, queueVars
  <2>2. \A v \in Worker \ {w} : pc'[v] = pc[v] /\ has'[v] = has[v]
    BY <1>7 DEF Select, Count, Average, Record, Goto, TypeOK
  <2>3. Holds(w)' => Holds(w)
    BY <1>7 DEF Select, Count, Average, Record, Goto, TypeOK, Holds
  <2>4. Holds(w) => Holds(w)' /\ has'[w] = has[w]
    BY <1>7 DEF Select, Count, Average, Record, Goto, TypeOK, Holds
  <2> QED  BY <2>1, <2>2, <2>3, <2>4, PlacesFrame DEF Holds
<1>8. ASSUME NEW w \in Worker, Send(w)
      PROVE  OnePlaceEach' /\ AttemptsLeft'
  BY <1>8, SendPlaces
<1>9. ASSUME NEW w \in Worker, Timeout(w)
      PROVE  OnePlaceEach' /\ AttemptsLeft'
  BY <1>9, PlacesFrame DEF Timeout, Holds
<1>10. CASE UNCHANGED vars
  BY <1>10, PlacesFrame DEF vars, queueVars, Holds
<1> QED
  BY <1>1, <1>2, <1>3, <1>4, <1>5, <1>6, <1>7, <1>8, <1>9, <1>10 DEF Next

LEMMA Inductive == Spec => []IInv
<1>1. Init => IInv
  <2> SUFFICES ASSUME Init PROVE IInv
    OBVIOUS
  <2> USE WorkerCountAssumption, MaxAttemptsAssumption
  <2>a. /\ jobs \subseteq Job /\ closed \in BOOLEAN /\ ctxDone \in BOOLEAN
        /\ waiting \subseteq Worker /\ woken \subseteq Worker
        /\ expired \subseteq Worker /\ stopCh \subseteq Worker
    BY Zenon DEF Init
  <2>b. /\ place \in [Job -> Places] /\ attempts \in [Job -> Nat]
        /\ pc \in [Worker -> Pcs] /\ has \in [Worker -> Job \cup {NoJob}]
    BY DEF Init, Places, Pcs
  <2>c. /\ poolPc \in {"new", "running", "lock", "wait", "stopped"}
        /\ stopIdx \in 0..NumWorkers
        /\ processed \in Nat /\ successful \in Nat /\ failed \in Nat /\ retried \in Nat
    BY DEF Init
  <2>1. TypeOK
    BY <2>a, <2>b, <2>c DEF TypeOK
  <2>2. Booted /\ OnePlaceEach /\ AttemptsLeft
    BY DEF Init, Booted, OnePlaceEach, AttemptsLeft, Holds
  <2> QED  BY <2>1, <2>2 DEF IInv
<1>2. IInv /\ [Next]_vars => IInv'
  <2> SUFFICES ASSUME IInv, [Next]_vars PROVE IInv'
    OBVIOUS
  <2>1. SendersHaveJobs
    BY DEF IInv, OnePlaceEach, SendersHaveJobs
  <2> QED  BY <2>1, TypeStep, BootedStep, PlacesStep DEF IInv
<1> QED  BY <1>1, <1>2, PTL DEF Spec

-----------------------------------------------------------------------------
(* Theorems.                                                               *)

\* Every variable of the pool keeps its type.
THEOREM TypeCorrect == Spec => []TypeOK
<1>1. IInv => TypeOK
  BY DEF IInv
<1> QED  BY <1>1, Inductive, PTL

\* A job is in one place only, the retry goroutine and the worker that started it never
\* both own it, and it is given up only once its last attempt is used: OnePlace for
\* every number of jobs, workers and attempts.
THEOREM JobsAreInOnePlace == Spec => []OnePlace
<1>1. IInv => OnePlace
  <2> SUFFICES ASSUME IInv PROVE OnePlace
    OBVIOUS
  <2>1. ASSUME NEW j \in Job, place[j] = "held"
        PROVE  Cardinality({w \in Worker : has[w] = j /\ pc[w] \in {"count", "send"}}) = 1
    <3>1. PICK w \in Worker : Holds(w) /\ has[w] = j
      BY <2>1 DEF IInv, OnePlaceEach
    <3>2. {v \in Worker : has[v] = j /\ pc[v] \in {"count", "send"}} = {w}
      BY <3>1 DEF IInv, OnePlaceEach, Holds
    <3> QED  BY <3>2, FS_Singleton
  <2> QED  BY <2>1 DEF IInv, OnePlaceEach, AttemptsLeft, OnePlace, Holds
<1> QED  BY <1>1, Inductive, PTL

-----------------------------------------------------------------------------
(* Counters.                                                               *)

\* The workers whose job is counted as processed and not yet counted as anything else.
Counting == {w \in Worker : pc[w] \in {"send", "ok", "error", "requeued"}}

\* The set of workers is finite, and so is every part of it.
LEMMA CountingSets ==
    ASSUME NEW S, S \subseteq Worker
    PROVE  /\ Cardinality(S) \in Nat
           /\ \A w \in Worker : w \notin S => Cardinality(S \cup {w}) = Cardinality(S) + 1
           /\ \A w \in S : Cardinality(S \ {w}) = Cardinality(S) - 1
<1>1. IsFiniteSet(Worker)
  BY WorkerCountAssumption, FS_Interval DEF Worker
<1>2. IsFiniteSet(S)
  BY <1>1, FS_Subset
<1> QED  BY <1>2, FS_CardinalityType, FS_AddElement, FS_RemoveElement

\* The pool's counters balance, however the workers' two critical sections per job
\* interleave: StatsBalance for every number of jobs, workers and attempts.
THEOREM CountersBalance == Spec => []StatsBalance
<1> DEFINE Balance == processed = successful + failed + retried + Cardinality(Counting)
<1>1. Init => Balance
  <2> SUFFICES ASSUME Init PROVE Balance
    OBVIOUS
  <2>1. Counting = {}
    BY DEF Init, Counting
  <2> QED  BY <2>1, FS_EmptySet DEF Init
<1>2. IInv /\ Balance /\ [Next]_vars => Balance'
  <2> SUFFICES ASSUME IInv, Balance, [Next]_vars PROVE Balance'
    OBVIOUS
  <2>0. TypeOK
    BY DEF IInv
  <2>1. ASSUME UNCHANGED <<Counting, statVars>> PROVE Balance'
    BY <2>1 DEF statVars
  <2>2. ASSUME NEW w \in Worker, NEW l, Goto(w, l), UNCHANGED statVars,
               pc[w] \in {"send", "ok", "error", "requeued"} <=> l \in {"send", "ok", "error", "requeued"}
        PROVE  Balance'
    <3>1. Counting' = Counting
      BY <2>0, <2>2 DEF Goto, Counting, TypeOK
    <3> QED  BY <2>1, <2>2, <3>1
  <2>3. CASE PoolStart
    <3>1. Counting' = Counting
      BY <2>3 DEF PoolStart, IInv, Booted, Counting
    <3> QED  BY <2>1, <2>3, <3>1 DEF PoolStart
  <2>4. CASE PoolStop \/ CancelContext \/ Clear \/ Close
    BY <2>1, <2>4 DEF PoolStop, CancelContext, Clear, Close, Counting
  <2>5. ASSUME NEW j \in Job, Submit(j) \/ RetryPush(j) PROVE Balance'
    BY <2>1, <2>5 DEF Submit, RetryPush, Counting
  <2>6. ASSUME NEW w \in Worker, Timeout(w) PROVE Balance'
    BY <2>1, <2>6 DEF Timeout, Counting
  <2>7. ASSUME NEW w \in Worker, Select(w) PROVE Balance'
    BY <2>2, <2>7 DEF Select
  <2>8. ASSUME NEW w \in Worker, Call(w) \/ Wake(w) PROVE Balance'
    BY <2>2, <2>8 DEF Call, Wake, PopLoop
  <2>9. ASSUME NEW w \in Worker, Average(w) PROVE Balance'
    BY <2>2, <2>9 DEF Average
  <2>10. ASSUME NEW w \in Worker, Send(w) PROVE Balance'
    BY <2>2, <2>10 DEF Send
  <2>11. ASSUME NEW w \in Worker, Count(w) PROVE Balance'
    <3>1. Counting' = Counting \cup {w} /\ w \notin Counting
      BY <2>0, <2>11 DEF Count, Goto, Counting, TypeOK
    <3>2. Cardinality(Counting') = Cardinality(Counting) + 1 /\ Cardinality(Counting) \in Nat
      BY <3>1, CountingSets DEF Counting
    <3>3. processed' = processed + 1 /\ UNCHANGED <<successful, failed, retried>>
      BY <2>11 DEF Count
    <3> QED  BY <2>0, <3>2, <3>3 DEF TypeOK
  <2>12. ASSUME NEW w \in Worker, Record(w) PROVE Balance'
    <3>1. Counting' = Counting \ {w} /\ w \in Counting
      BY <2>0, <2>12 DEF Record, Goto, Counting, TypeOK
    <3>2. Cardinality(Counting') = Cardinality(Counting) - 1 /\ Cardinality(Counting) \in Nat
      BY <3>1, CountingSets DEF Counting
    <3>3. processed' = processed
      BY <2>12 DEF Record
    <3>4. CASE successful' = successful + 1 /\ UNCHANGED <<failed, retried>>
      BY <2>0, <3>2, <3>3, <3>4 DEF TypeOK
    <3>5. CASE failed' = failed + 1 /\ UNCHANGED <<successful, retried>>
      BY <2>0, <3>2, <3>3, <3>5 DEF TypeOK
    <3>6. CASE retried' = retried + 1 /\ UNCHANGED <<successful, failed>>
      BY <2>0, <3>2, <3>3, <3>6 DEF TypeOK
    <3> QED  BY <2>12, <3>4, <3>5, <3>6 DEF Record
  <2>13. CASE UNCHANGED vars
    BY <2>1, <2>13 DEF vars, Counting
  <2> QED
    BY <2>3, <2>4, <2>5, <2>6, <2>7, <2>8, <2>9, <2>10, <2>11, <2>12, <2>13 DEF Next
<1>3. Balance => StatsBalance
  BY DEF StatsBalance, Counting
<1> QED  BY <1>1, <1>2, <1>3, Inductive, PTL DEF Spec

-----------------------------------------------------------------------------
(* What a step may never do.                                               *)

\* A job nobody will work on again: sent, given up, refused by Push or cleared.
Settled(j) == place[j] \in {"sent", "failed", "refused", "cleared"}

\* A job that was sent is never sent again and one that was given up, refused or cleared
\* is never revived, however workers, retry goroutines, Clear and Stop interleave.
THEOREM SettledJobsStay ==
    Spec => [][\A j \in Job : Settled(j) => place'[j] = place[j] /\ attempts'[j] = attempts[j]]_vars
<1>1. ASSUME IInv, Next, NEW j \in Job, Settled(j)
      PROVE  place'[j] = place[j] /\ attempts'[j] = attempts[j]
  <2>0. /\ place \in [Job -> Places] /\ attempts \in [Job -> Nat] /\ j \notin jobs
        /\ \A w \in Worker : Holds(w) => has[w] \in Job /\ has[w] # j
    <3>1. place \in [Job -> Places] /\ attempts \in [Job -> Nat]
      BY <1>1 DEF IInv, TypeOK
    <3>2. j \notin jobs /\ \A w \in Worker : Holds(w) => has[w] \in Job /\ has[w] # j
      BY <1>1 DEF IInv, OnePlaceEach, Settled
    <3> QED  BY <3>1, <3>2
  <2>1. CASE PoolStart \/ PoolStop \/ CancelContext \/ Close
    BY <2>1 DEF PoolStart, PoolStop, CancelContext, Close
  <2>2. CASE Clear
    BY <2>0, <2>2 DEF Clear
  <2>3. ASSUME NEW k \in Job, Submit(k) \/ RetryPush(k)
        PROVE  place'[j] = place[j] /\ attempts'[j] = attempts[j]
    <3>1. k # j /\ Push(k) /\ attempts' = attempts
      BY <1>1, <2>3 DEF Submit, RetryPush, Settled
    <3> QED  BY <2>0, <3>1 DEF Push, Put
  <2>4. ASSUME NEW w \in Worker, Call(w) \/ Wake(w)
        PROVE  place'[j] = place[j] /\ attempts'[j] = attempts[j]
    <3>1. PopLoop(w)
      BY <2>4 DEF Call, Wake
    <3> QED  BY <2>0, <3>1 DEF PopLoop, Put, First
  <2>5. ASSUME NEW w \in Worker, Send(w)
        PROVE  place'[j] = place[j] /\ attempts'[j] = attempts[j]
    <3>1. has[w] \in Job /\ has[w] # j
      BY <2>0, <2>5 DEF Send, Holds
    <3> QED  BY <2>0, <2>5, <3>1 DEF Send, Put
  <2>6. ASSUME NEW w \in Worker, Select(w) \/ Timeout(w) \/ Count(w) \/ Record(w) \/ Average(w)
        PROVE  place'[j] = place[j] /\ attempts'[j] = attempts[j]
    BY <2>6 DEF Select, Timeout, Count, Record, Average
  <2> QED  BY <1>1, <2>1, <2>2, <2>3, <2>4, <2>5, <2>6 DEF Next
<1>2. IInv /\ [Next]_vars => [\A j \in Job : Settled(j) => place'[j] = place[j] /\ attempts'[j] = attempts[j]]_vars
  BY <1>1
<1> QED  BY <1>2, Inductive, PTL DEF Spec
=============================================================================
