---------------------------- MODULE WebhookWorker ----------------------------
(***************************************************************************)
(* Asynchronous webhook delivery (internal/webhook/async_worker.go and     *)
(* client.go): a queue and a retry queue, both buffered channels, worker   *)
(* goroutines that read either, a retry processor that reads the retry     *)
(* queue too, and Start and Stop, which hold the mutex w.mu that also      *)
(* guards the statistics.                                                  *)
(*                                                                         *)
(* updateStats takes and releases w.mu in one step; only Stop keeps it     *)
(* while others run.  A select with several cases ready takes any of them. *)
(***************************************************************************)
EXTENDS WebhookQueues

chans == <<queue, retryQueue, held>>
jobs  == <<attempts, due, fate>>
stats == <<queueSize, pendingRetries>>
ctl   == <<stopper, running, stopCh, ctxDone>>
vars  == <<queue, retryQueue, held, attempts, due, worker, processor, entering, fate,
           stopper, running, stopCh, ctxDone, queueSize, pendingRetries>>

Off == [pc |-> "off"]
Select == [pc |-> "select"]
Busy == {"send", "failed", "done", "scheduled", "abandon"}

TypeOK ==
    /\ queue \in Seq(Job) /\ Len(queue) <= BufferSize
    /\ retryQueue \in Seq(Job) /\ Len(retryQueue) <= BufferSize
    /\ held \in Seq(Job)
    /\ attempts \in [Job -> 0..MaxRetries]
    /\ due \in [Job -> BOOLEAN]
    /\ worker \in [Worker -> {Off, Select} \cup [pc : Busy, job : Job]]
    /\ processor \in {Off, Select} \cup [pc : {"scan", "requeued"}, rest : Seq(Job), kept : Seq(Job)]
    /\ entering \subseteq Job
    /\ fate \in [Job -> {"new", "accepted", "delivered", "abandoned", "refused", "lost"}]
    /\ stopper \in {"idle", "waiting", "panic"}
    /\ running \in BOOLEAN /\ stopCh \in BOOLEAN /\ ctxDone \in BOOLEAN
    /\ queueSize \in Int /\ pendingRetries \in Int

Init ==
    /\ queue = <<>> /\ retryQueue = <<>> /\ held = <<>>
    /\ attempts = [j \in Job |-> 0] /\ due = [j \in Job |-> FALSE]
    /\ fate = [j \in Job |-> "new"]
    /\ worker = [w \in Worker |-> Off] /\ processor = Off
    /\ entering = {}
    /\ stopper = "idle" /\ running = FALSE /\ stopCh = FALSE /\ ctxDone = FALSE
    /\ queueSize = 0 /\ pendingRetries = 0

Up == stopper # "panic"               \* the process is alive
LockFree == stopper = "idle"          \* w.mu

-----------------------------------------------------------------------------
(* client.go.                                                              *)

\* What one HTTP attempt ends with: a 2xx, a status worth another attempt (408, 429,
\* 500, 502, 503, 504), none at all, or any other status.
Status == {"ok", "retryable", "network", "other"}

shouldRetry(status, attempt) == attempt < MaxRetries /\ status \in {"network", "retryable"}

\* URLs: one that does not parse, has another scheme or no host, one whose host is
\* local (localhost, or a loopback, private or link-local address as it is written),
\* or any other.
URL == {"malformed", "scheme", "hostless", "local", "public"}

isInternalOrPrivateURL(url) == url = "local"
validateWebhookURL(url) == url \notin {"malformed", "scheme", "hostless"} /\ ~isInternalOrPrivateURL(url)

\* SendWebhook, for a URL and the answers to the attempts it may make: whether the
\* webhook was delivered.  It waits between attempts; a context that ends meanwhile is
\* a failure.
SendWebhook(url, answers, timely) ==
    LET last == Min({i \in 1..MaxRetries : ~shouldRetry(answers[i], i)}) IN
    validateWebhookURL(url) /\ timely /\ answers[last] = "ok"

Delivered == {SendWebhook(url, a, t) : url \in URL, a \in [1..MaxRetries -> Status], t \in BOOLEAN}

-----------------------------------------------------------------------------
(* Start, Stop and EnqueueWebhook.                                         *)

\* Start, for the first time or again once every goroutine of the last time has ended,
\* with a context of its own.  stopCh is not made anew.
Start ==
    /\ Up /\ LockFree /\ ~running
    /\ processor = Off /\ \A w \in Worker : worker[w] = Off
    /\ worker' = [w \in Worker |-> Select]
    /\ processor' = Select
    /\ running' = TRUE /\ ctxDone' = FALSE
    /\ UNCHANGED <<chans, jobs, entering, stopper, stopCh, stats>>

Stop_NoSignal ==
    /\ Up /\ LockFree /\ running
    /\ stopper' = "waiting"
    /\ UNCHANGED <<chans, jobs, worker, processor, entering, running, stopCh, ctxDone, stats>>

\* Stop takes w.mu and closes stopCh, which panics when it is closed already.
Stop ==
    /\ Up /\ LockFree /\ running
    /\ stopper' = IF stopCh THEN "panic" ELSE "waiting"
    /\ stopCh' = TRUE
    /\ UNCHANGED <<chans, jobs, worker, processor, entering, running, ctxDone, stats>>

Ended == processor = Off /\ \A w \in Worker : worker[w] = Off

\* Stop returns once the goroutines have ended (wg.Wait), or its context has.
StopReturns ==
    /\ stopper = "waiting" /\ Ended
    /\ stopper' = "idle" /\ running' = FALSE
    /\ UNCHANGED <<chans, jobs, worker, processor, entering, stopCh, ctxDone, stats>>

StopTimesOut ==
    /\ stopper = "waiting" /\ ~Ended
    /\ stopper' = "idle" /\ running' = FALSE
    /\ UNCHANGED <<chans, jobs, worker, processor, entering, stopCh, ctxDone, stats>>

Cancel ==
    /\ Up /\ running /\ ~ctxDone
    /\ ctxDone' = TRUE
    /\ UNCHANGED <<chans, jobs, worker, processor, entering, stopper, running, stopCh, stats>>

\* EnqueueWebhook: the send, or the default case of a full channel.
EnqueueWebhook(j) ==
    /\ Up /\ fate[j] = "new"
    /\ IF Len(queue) < BufferSize
       THEN /\ queue' = Append(queue, j)
            /\ fate' = [fate EXCEPT ![j] = "accepted"]
            /\ entering' = entering \cup {j}
       ELSE fate' = [fate EXCEPT ![j] = "refused"] /\ UNCHANGED <<queue, entering>>
    /\ UNCHANGED <<retryQueue, held, attempts, due, worker, processor, ctl, stats>>

\* Its updateStats.
Enqueued(j) ==
    /\ Up /\ LockFree /\ j \in entering
    /\ entering' = entering \ {j}
    /\ queueSize' = queueSize + 1
    /\ UNCHANGED <<chans, jobs, worker, processor, ctl, pendingRetries>>

-----------------------------------------------------------------------------
(* runWorker and processWebhookJob.                                        *)

Go(w, pc, j) == worker' = [worker EXCEPT ![w] = [pc |-> pc, job |-> j]]
In(w, pc) == worker[w].pc = pc

WorkerQuits(w) ==
    /\ Up /\ In(w, "select") /\ (stopCh \/ ctxDone)
    /\ worker' = [worker EXCEPT ![w] = Off]
    /\ UNCHANGED <<chans, jobs, processor, entering, ctl, stats>>

Begin(w, j) == Go(w, "send", j) /\ attempts' = [attempts EXCEPT ![j] = @ + 1]

TakeJob(w) ==
    /\ Up /\ In(w, "select") /\ queue # <<>>
    /\ Begin(w, Head(queue)) /\ queue' = Tail(queue)
    /\ UNCHANGED <<retryQueue, held, due, fate, processor, entering, ctl, stats>>

\* Workers read the retry queue themselves, whether or not the retry is due.
TakeRetry(w) ==
    /\ Up /\ In(w, "select") /\ retryQueue # <<>>
    /\ Begin(w, Head(retryQueue)) /\ retryQueue' = Tail(retryQueue)
    /\ UNCHANGED <<queue, held, due, fate, processor, entering, ctl, stats>>

\* SendWebhook returns and the statistics are updated, which waits for w.mu.
Send(w) ==
    /\ Up /\ LockFree /\ In(w, "send")
    /\ \E ok \in Delivered :
          /\ ctxDone => ~ok
          /\ Go(w, IF ok THEN "done" ELSE "failed", worker[w].job)
    /\ queueSize' = queueSize - 1
    /\ UNCHANGED <<chans, jobs, processor, entering, ctl, pendingRetries>>

Finish(w) ==
    /\ Up /\ In(w, "done")
    /\ fate' = [fate EXCEPT ![worker[w].job] = "delivered"]
    /\ worker' = [worker EXCEPT ![w] = Select]
    /\ UNCHANGED <<chans, attempts, due, processor, entering, ctl, stats>>

\* The failure path: a retry, unless the attempts are used up, the job is too old, or
\* the retry queue is full.
Retry(w) ==
    LET j == worker[w].job IN
    /\ Up /\ In(w, "failed")
    /\ \E young \in BOOLEAN :
          IF attempts[j] < MaxRetries /\ young /\ Len(retryQueue) < BufferSize
          THEN /\ retryQueue' = Append(retryQueue, j)
               /\ due' = [due EXCEPT ![j] = FALSE]
               /\ Go(w, "scheduled", j)
          ELSE Go(w, "abandon", j) /\ UNCHANGED <<retryQueue, due>>
    /\ UNCHANGED <<queue, held, attempts, fate, processor, entering, ctl, stats>>

\* updateStats after the send to the retry queue; the job may be anywhere by now.
Scheduled(w) ==
    /\ Up /\ LockFree /\ In(w, "scheduled")
    /\ pendingRetries' = pendingRetries + 1
    /\ worker' = [worker EXCEPT ![w] = Select]
    /\ UNCHANGED <<chans, jobs, processor, entering, ctl, queueSize>>

\* abandonWebhookJob, whose updateStats counts the job.
Abandon(w) ==
    /\ Up /\ LockFree /\ In(w, "abandon")
    /\ fate' = [fate EXCEPT ![worker[w].job] = "abandoned"]
    /\ worker' = [worker EXCEPT ![w] = Select]
    /\ UNCHANGED <<chans, attempts, due, processor, entering, ctl, stats>>

-----------------------------------------------------------------------------
(* runRetryProcessor.                                                      *)

\* The slice goes with the goroutine.
ProcessorQuits ==
    /\ Up /\ processor = Select /\ (stopCh \/ ctxDone)
    /\ processor' = Off
    /\ held' = <<>>
    /\ fate' = [j \in Job |-> IF \E i \in DOMAIN held : held[i] = j THEN "lost" ELSE fate[j]]
    /\ UNCHANGED <<queue, retryQueue, attempts, due, worker, entering, ctl, stats>>

Hold ==
    /\ Up /\ processor = Select /\ retryQueue # <<>>
    /\ held' = Append(held, Head(retryQueue)) /\ retryQueue' = Tail(retryQueue)
    /\ UNCHANGED <<queue, jobs, worker, processor, entering, ctl, stats>>

\* The timer fires.
Scan ==
    /\ Up /\ processor = Select /\ held # <<>>
    /\ processor' = [pc |-> "scan", rest |-> held, kept |-> <<>>]
    /\ held' = <<>>
    /\ UNCHANGED <<queue, retryQueue, jobs, worker, entering, ctl, stats>>

\* The next job of the scan goes to the queue if it is due and there is room.
ScanOne ==
    /\ Up /\ processor.pc = "scan" /\ processor.rest # <<>>
    /\ LET j == Head(processor.rest) IN
       IF due[j] /\ Len(queue) < BufferSize
       THEN /\ queue' = Append(queue, j)
            /\ processor' = [processor EXCEPT !.pc = "requeued", !.rest = Tail(@)]
       ELSE /\ processor' = [processor EXCEPT !.rest = Tail(@), !.kept = Append(@, j)]
            /\ UNCHANGED queue
    /\ UNCHANGED <<retryQueue, held, jobs, worker, entering, ctl, stats>>

Requeued_OneCounter ==
    /\ Up /\ LockFree /\ processor.pc = "requeued"
    /\ processor' = [processor EXCEPT !.pc = "scan"]
    /\ queueSize' = queueSize + 1
    /\ UNCHANGED <<chans, jobs, worker, entering, ctl, pendingRetries>>

Requeued ==
    /\ Up /\ LockFree /\ processor.pc = "requeued"
    /\ processor' = [processor EXCEPT !.pc = "scan"]
    /\ queueSize' = queueSize + 1 /\ pendingRetries' = pendingRetries - 1
    /\ UNCHANGED <<chans, jobs, worker, entering, ctl>>

ScanEnds_Forgets ==
    /\ Up /\ processor.pc = "scan" /\ processor.rest = <<>>
    /\ processor' = Select
    /\ UNCHANGED <<chans, jobs, worker, entering, ctl, stats>>

ScanEnds ==
    /\ Up /\ processor.pc = "scan" /\ processor.rest = <<>>
    /\ held' = processor.kept
    /\ processor' = Select
    /\ UNCHANGED <<queue, retryQueue, jobs, worker, entering, ctl, stats>>

\* calculateRetryDelay has passed for j, at most thirty seconds after its failure.
Tick(j) ==
    /\ Up /\ ~due[j] /\ fate[j] = "accepted" /\ attempts[j] > 0
    /\ due' = [due EXCEPT ![j] = TRUE]
    /\ UNCHANGED <<chans, attempts, fate, worker, processor, entering, ctl, stats>>

-----------------------------------------------------------------------------
WorkerStep(w) ==
    \/ WorkerQuits(w) \/ TakeJob(w) \/ TakeRetry(w) \/ Send(w) \/ Finish(w)
    \/ Retry(w) \/ Scheduled(w) \/ Abandon(w)

ProcessorStep == ProcessorQuits \/ Hold \/ Scan \/ ScanOne \/ Requeued \/ ScanEnds

Next ==
    \/ Start \/ Stop \/ StopReturns \/ StopTimesOut \/ Cancel
    \/ \E j \in Job : EnqueueWebhook(j) \/ Enqueued(j) \/ Tick(j)
    \/ \E w \in Worker : WorkerStep(w)
    \/ ProcessorStep

\* Goroutines run, HTTP calls end (the job's context gives them thirty seconds), the
\* timer fires and delays pass.  Nothing makes anyone call Start or Stop, and a
\* context without a deadline never ends.
Fairness ==
    /\ WF_vars(StopReturns)
    /\ \A j \in Job : WF_vars(Enqueued(j)) /\ WF_vars(Tick(j))
    /\ \A w \in Worker : WF_vars(WorkerStep(w)) /\ SF_vars(WorkerQuits(w))
    /\ WF_vars(Hold \/ ScanOne \/ Requeued \/ ScanEnds) /\ SF_vars(Scan) /\ SF_vars(ProcessorQuits)

Spec == Init /\ [][Next]_vars /\ Fairness

-----------------------------------------------------------------------------
(* Correctness.                                                            *)

WaitsForLock ==
    \/ \E w \in Worker : worker[w].pc \in {"send", "scheduled", "abandon"}
    \/ processor.pc = "requeued"

\* A Stop that hangs hangs on its own lock: it returns unless a goroutine it waits for
\* is waiting for the mutex that Stop holds.
StopWaitsForLock == stopper = "waiting" ~> (stopper = "idle" \/ WaitsForLock)

\* While nobody stops it, every accepted job is delivered or abandoned.
JobsSettle ==
    \A j \in Job :
       fate[j] = "accepted" /\ running ~> (fate[j] \in {"delivered", "abandoned"} \/ stopCh \/ ctxDone)
=============================================================================
