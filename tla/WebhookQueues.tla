---------------------------- MODULE WebhookQueues ----------------------------
(***************************************************************************)
(* The state of asynchronous webhook delivery (AsyncWebhookWorker and      *)
(* WebhookStats of internal/webhook/async_worker.go) and what its counters *)
(* are worth.  WebhookWorker has the steps.                                *)
(***************************************************************************)
EXTENDS Integers, Sequences, FiniteSetsExt

CONSTANTS
    Job,          \* webhook jobs
    Worker,       \* worker goroutines (WorkerCount of them)
    BufferSize,   \* capacity of each of the two channels
    MaxRetries    \* maxRetries of the HTTP client and MaxRetries of a job: one setting

ASSUME BufferAssumption == BufferSize \in Nat
ASSUME RetriesAssumption == MaxRetries \in Nat \ {0}

VARIABLES
    queue,        \* webhookQueue
    retryQueue,   \* retryQueue
    held,         \* retryJobs, the retry processor's own slice
    attempts,     \* Attempts of each job
    due,          \* whether NextRetryAt of each job has come
    worker,       \* what each worker does, and its job
    processor,    \* what the retry processor does; rest is what its scan has left
    entering,     \* EnqueueWebhook calls between their send and their updateStats
    fate,         \* history: what became of each job
    stopper,      \* Stop: "idle", "waiting" with w.mu held, or "panic"
    running,      \* w.running
    stopCh,       \* whether w.stopCh is closed
    ctxDone,      \* whether the context given to Start is cancelled
    queueSize, pendingRetries    \* statistics

-----------------------------------------------------------------------------
\* QueueSize and PendingRetries drift, since a worker that takes a retry itself counts
\* it out of the queue, where it never was, and leaves it pending; but they drift in
\* opposite directions: together they always count the jobs that wait or are being sent,
\* and those lost with the processor's slice, less those whose addition is still to come.
CountersDriftTogether ==
    queueSize + pendingRetries =
       Len(queue) + Len(retryQueue) + Len(held)
         + (IF processor.pc \in {"scan", "requeued"} THEN Len(processor.rest) + Len(processor.kept) ELSE 0)
         + Cardinality({w \in Worker : worker[w].pc = "send"})
         + Cardinality({j \in Job : fate[j] = "lost"})
         - Cardinality(entering) - Cardinality({w \in Worker : worker[w].pc = "scheduled"})
=============================================================================
