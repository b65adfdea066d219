# MailVault in TLA+

TLA+ models of MailVault: its job queues and worker pools, the validation of
domains, outbound mail, webhooks and their circuit breaker, inbound SMTP with its
verifier, inbox and statistics, and accounts. TLC checks the models on small
instances; TLAPS proves the most important invariants for every instance.

Paths below are relative to the repository root. `PROJECT.json` maps every
definition to the lines it models and lists runs, mutants, findings, hazards and
theorems.

## 1. Inventory

MailVault is three processes around one PostgreSQL database: the API server
(`cmd/service`), the SMTP daemon (`cmd/smtpd`) and the worker (`cmd/worker`).

| Component | State | Operations | What is hard | What makes it correct |
|---|---|---|---|---|
| Validation job queue, `app/worker/queue.go` | slice or heap of jobs, `closed`, mutex, condition variable | Push, Pop, Enqueue, Dequeue, Clear, Close | wake-ups, stealing of jobs, cancellation while asleep | no lost wake-up, no lost or doubled job, Close releases all |
| Validation service, `manager.go`, `validation_worker.go`, `JobScheduler`, `cmd/worker/main.go` | running flag, stop channels, schedule, workers | Start, Stop, queue, schedule, check, process | six kinds of goroutine, locks held while waiting, unlocked reads | jobs are accounted for, accepted jobs finish, Stop ends |
| Email worker pool, `email_queue.go`, `email_sender_worker.go` | heap, counters and mutex per worker | Submit, send, retry with backoff, Start, Stop | retry goroutines, counters under a lock Stop holds, timeouts | one owner per job, exact attempt limit, balanced counters |
| Domain validation, `domain/validation`, `domain/domain`, `pg/validation.go`, `pg/domain.go` | verification columns of `domains` | validate, retry, edit, delete, feed | several statements without a transaction, duplicate jobs, stale full-row writes, restarts, spelling of DNS answers | verified only with evidence, nothing stuck, retry limit |
| Outbound mail, `domain/email_sending`, `entities/sent_email.go`, `pg/sent_email.go`, `internal/smtprelay` | `sent_emails` rows | send, resend, process the retry queue | lost relay replies, overlapping resends, crash between relay and row, a backoff that overflows | sent means accepted, no duplicate without a failure, rows tell the truth, retries wait |
| Webhook delivery, `internal/webhook` | two channels, a local retry slice, counters, one mutex | enqueue, deliver, retry, Start, Stop | a mutex Stop holds while it waits, retries read by the wrong loop, a closed stop channel after a restart | every accepted delivery settles, Stop ends, gauges are right |
| Webhook configurations and circuit breaker, `entities/webhook_config.go`, `domain/webhook_config`, `pg/webhook_config.go`, `config_loader.go` | configuration rows, audit log | create, edit, enable, disable, delete, test, health check, deliver | whole rows read, changed and written back by everybody | unique names, a truthful audit log, a breaker that opens and recovers |
| Inbound SMTP, `app/smtp`, `domain/email`, `pg/email_address.go`, `pg/received_email.go` | session, addresses, received mail | RCPT and DATA, auto-create, store, forward, address API | partial failure over recipients, check-then-create, sequence numbers, keys replaced under way | what was answered 250 is stored, addressed and sealed for its owner |
| Spam verification, `app/smtp/verification` | none | SPF, DKIM, DMARC, reputation, content, score, action | recursion over includes, many inputs, thresholds | a pass is authorised, a good sender is accepted |
| Inbox and statistics, `app/api/v1/emails`, `pg/received_email.go`, `domain/smtp_stats`, `pg/smtp_stats.go`, `app/api/v1/admin` | `received_emails`, `smtp_verification_stats` | filters, pages, reports | rows joined by time, pages against totals, an empty filter | pages tile the list, each mail once, reports agree, senders are ranked right |
| Encryption, `internal/encryption` | none | parse keys, seal, open | format of keys and stored bodies | what is stored can be opened |
| Accounts, `app/api/v1/auth`, `users`, `admin`, `domains`, `domain/user`, `domain/domain`, `internal/auth` | `users`, `local_credentials`, `domains`, tokens | register, log in, confirm, administrate, create and delete domains | check-then-insert, two inserts without a transaction, tokens that outlive their account | a token names its account, no account without a password, deletion is final |
| API, middleware, rendering, configuration, monitoring | request scoped | HTTP | | see section 6 |

Interaction. `cmd/worker` starts a `Manager` whose workers pop jobs from a queue
that a feeder goroutine and the `JobScheduler` fill; each job runs the validation
use case, which shares the `domains` rows with the API process. The email pool's
workers call the email-sending use case, which writes `sent_emails` and calls the
SMTP relay; the API calls the same use case. `cmd/smtpd` reads `domains` and
`email_addresses`, runs the verifier, writes `received_emails`, and leaves
goroutines behind for statistics, webhooks and forwarding.

## 2. Modules

| Module | Models | Extends or composes |
|---|---|---|
| `WorkPool` | abstract: a pool of pending jobs that serves blocked callers | refined by `JobQueue` |
| `JobQueue` | `PriorityQueue` and `InMemoryQueue` | |
| `ValidationService` | manager, workers, scheduler, feeder, shutdown | composes `JobQueue` |
| `EmailWorkers` | email queue, workers, retry goroutines, pool | |
| `DNSService` | what a DNS check finds (operators) | |
| `DomainValidation` | the validation use case over `domains` | `DNSService` |
| `Backoff` | `calculateNextRetryTime` in 64-bit arithmetic (operators) | |
| `OutboundMail` | the email-sending use case over `sent_emails` and the relay | `Backoff` |
| `WebhookQueues` | the state of `AsyncWebhookWorker`, and what its counters are worth | |
| `WebhookWorker` | `AsyncWebhookWorker` and the HTTP client's attempts | `WebhookQueues` |
| `WebhookConfigs` | configuration rows, audit log, synchronous delivery | |
| `Verification` | the verifier (operators) | |
| `Encryption` | keys, sealing and opening (operators) | |
| `InboundMail` | SMTP sessions, addresses, received mail, their API | `Verification`, composes `Encryption` |
| `Mailbox`, `Statistics` | the inbox listings and the SMTP reports (operators) | |
| `Reports` | inbound mail with what is shown of it | `InboundMail`, `Mailbox`, `Statistics` |
| `Accounts` | users, credentials, tokens, domains | |
| `JobQueueProofs`, `ValidationServiceProofs`, `EmailWorkersProofs`, `DomainValidationProofs`, `OutboundMailProofs`, `WebhookProofs`, `InboundMailProofs`, `AccountsProofs` | theorems | each extends its component (`WebhookProofs` extends `WebhookConfigs` and `WebhookQueues` and instantiates `WebhookWorker` as `W`; `InboundMailProofs` extends `Reports`); `ValidationServiceProofs` instantiates `JobQueueProofs` |
| `MC...` | instances for TLC | |

**JobQueue.** A method under the mutex is one action. `Pop` gives the mutex up in
`cond.Wait()`, so it is one action per pass through its loop: `Pop` when called,
`Resume` when woken. `waiting` and `woken` split the goroutines inside `cond.Wait`
into those still asleep and those signalled; between the two, anybody may take
the job. The heap's array is abstracted to the sequence of arrival plus the order
`Less`: `Eligible` are the positions `heap.Pop` may take (ties are left open).
`Cancel` only sets the context; nothing wakes the sleeper, as in the code.

**ValidationService.** One program counter per goroutine. `Manager.Stop` is cut
where it can block: at the scheduler's mutex, at each worker's `doneCh`, at
`m.doneCh`; `MutexFree` says when `m.mutex` is free. `QueueValidationJob` reads
`m.running` without the lock and pushes in a later step (`admitted`).
`checkScheduledJobs` is one step per due job, with the scheduler's mutex held.
The use case inside `ProcessJob` is one step here; `DomainValidation` opens it.
The metrics goroutine and the statistics getters only read and are left out.

**EmailWorkers.** `place` says where each job is. The worker's counters are
updated in steps of their own because each takes the worker's mutex, which
`Stop` holds while it waits. A failed attempt hands the job to a sleeping
goroutine (`backoff`) *before* the worker counts it, as in the code.

**DomainValidation.** Every SQL statement is a step with a success and a failure
outcome. `UpdateValidationStatus` is three steps (`set`, `read`, `write`). `work`
holds what a validator is at, `snap` the row an `UpdateDomain` has read and not
yet written back. Times are `null`, `later` or `due`; Go's zero time, which the
create and update statements store where the column was NULL, is `due`. The
attempt counter saturates at `MaxRetries`, the only value it is compared with.
The resolver answers with any set of spellings of names and records, and
`DNSService` compares them as the code does. `passed` and `disturbed` are history:
DNS checks that passed, and failed statements, crashes and stale edits. The
validation records are reduced to the failure of their creation, since nothing
reads them back.

**OutboundMail.** A task reads the row, calls the relay and writes the whole row
back, each step separately. The relay is external: it takes the message and
confirms, refuses, or takes it and the reply is lost. `disturbed` marks rows on
which something failed or two operations overlapped. `Backoff` represents the
duration as four 16-bit limbs, since TLC's integers have 32 bits.

**WebhookWorker.** The two channels are bounded sequences, `held` is the retry
processor's local slice. Workers and the retry processor both receive from the
retry channel, as in the code. `Stop` holds `w.mu` from its call until every
goroutine has ended or its timeout fires, and `updateStats` needs the same mutex.
`Start` may run again after a Stop (with the stop channel still closed, as the
code leaves it); a second `Stop` then closes it twice, which is the state
`panic`. `Start` is modelled only once all goroutines of the last run have ended.

**WebhookConfigs.** Every writer reads the row whole, works on its copy without a
lock and writes the copy back (`task`); `stale` records whose copy was overtaken.
`audit` is what the audit log says last about a configuration being enabled: the
record of a creation, of an update (whose `NewValues` hold the value stored), of
enabling and of disabling says something, the record of a test does not, and
deliveries and health checks write the row without any record.
`IdentityKind` is what the authentication middleware leaves in the context: the
handlers ask for a UUID; as wired, `RequireAuth` leaves a string and every handler
answers 401. The run uses `"uuid"`, so that the code behind the check is checked.

**InboundMail.** One domain, with its tables. A session goes through its recipients
one at a time: the domain, the verifier, the address, the creation of an address,
the sequence number, the INSERT, each its own step, and `Data` answers 250 at the
end whatever happened. A session works with the copy of the domain's row it read
first: `auto_create_address` and the public key. The owner may meanwhile replace the
key by any text of `PublicKey`, parsable or not (`SetDomain`). A message that passed
every check and is not stored goes through `lost`: the address could not be created,
the body not be encrypted, the row not be inserted, or a lookup that failed was taken
for "no such address". `body` is what was sealed, `during` the keys the domain had
while it was received (history), `excused` who met a rival or a failed statement
(history). `tasks` are the goroutines a stored message leaves. The verifier's inputs (DNS answers, signatures, reputation replies, features of the
content) are records chosen from the constant sets `Zone` and `Message`, of which
`ZoneAssumption` and `MessageAssumption` say only the types. The content heuristics
are computed from the numbers the code counts (letters, capitals, characters beyond
ASCII, the length of tags, the headers that are there). Scores are thousandths, and
`Rounded` leaves open on which side of a threshold a floating-point sum falls that
meets it exactly.

**Mailbox, Statistics.** Pure operators over bounded histories and tables: the
joins, filters, sorting and paging of the SQL and the handlers' conversions. A
history may have lost the statistics of a message (their goroutine failed), and
deleted messages leave their statistics behind. In `Statistics` time is hours, months
begin where `MonthStart` says, and a filter is a function on the parameters that were
given; the filter on the sender, a substring, is the set of senders it matches. A
statement the database cannot parse is `Failed`.

**Accounts.** A handler is a sequence of SQL statements without a transaction; each
is a step that may fail and interleaves with other requests. A token is its claims
plus `via`, a fact no code sees: whose password, registration or older token was
presented for it. `MintedElsewhere` are tokens other programs signed with the
same secret (administrators' tokens are minted by nothing in this repository).
`lookupFailed`, `credsFailed` and `deleted` are history.

## 3. Runs

| Run | States | Shows |
|---|---|---|
| `jobqueue` | 10,310 | 3 jobs of two priorities and ages, 2 consumers, capacity 2: no lost wake-up, each job handed out once, release on Close, refinement of `WorkPool` with its progress |
| `service` | 142,846 | 2 workers, one fed and one scheduled job, capacity 1, FIFO: accounting, progress, shutdown |
| `service_shutdown` | violation | `ShutdownCompletes` |
| `email` | 296,479 | 2 workers, 2 jobs, 2 attempts, capacity 1: accounting and the attempt limit, counters, progress, shutdown |
| `domainvalidation` | 629,712 | one domain, a worker and a goroutine that both works and calls the retry operations, limit 2, answers in several spellings |
| `domainvalidation_retry_limit` | violation | `RetryLimit` |
| `outbound` | 87,539 | one mail, two senders, 17 retries: past the first overflow of the backoff |
| `webhook_configs` | 942,589 | 2 configurations, 2 goroutines, 2 names, 2 users, threshold 1 |
| `webhook_breaker` | violation | `BreakerRecovers` |
| `webhook_worker` | 163,222 | 2 jobs, 1 worker and the retry processor, buffers of 1, 2 retries |
| `inbound` | 522,876 | 2 sessions, 3 address ids, 2 spellings of a local part, 2 mails, 2 recipients a message, 2 texts for the domain's key; and the enumerated inputs of the operators |
| `accounts` | 442,085 | 2 users, 2 domains, 2 spellings of an address, 2 requests |

Bounds. Two consumers are enough for a job to be stolen between a signal and the
wake-up, three jobs for a full queue of two with one more on offer. Capacity 1
makes refusals frequent. Rows of `domains` are independent, so one domain suffices
for TLC; the proofs cover any number. Two validators give every interleaving of two
validations of one row. `MaxQueued` bounds the jobs queued for one domain (the
queue's capacity does in the code). `accepted` in `OutboundMail` saturates at 2,
which the properties call a duplicate; two mails with two retries (88,448 states)
were also checked, rows being independent. `MaxRetries` is one constant although
the column is per row. Two configurations give name clashes, two goroutines every
stale write. Three address ids let an address be deleted and created again while
two spellings compete. The domain's key is a key or a text that passes for one and
cannot encrypt; to a session that is like a text that is no key at all. Of two mails
one can be on its way while the key is replaced under the other. A second usable key,
with one spelling, and a third mail, with one key, were checked once each (512,874 and
894,932 states); together they do not fit the time of a regular run. The operators of `Verification` run over every pair of SPF
records of at most two mechanisms, with includes in both directions, and over all
combinations of a small set of DKIM, DMARC, reputation and content inputs;
`Mailbox` over all histories of two messages, `Statistics` over tables of two rows on both sides of midnight and of the
end of a month, and of three rows of which two senders have different shares, with
filters on every parameter and none, limits 1 and 2. Three users in `accounts` (6.2 million states) were checked once without a
violation; two fit the time of a regular run.

Deadlock checking is off where the system may stop: every job finished, every id
used up, everybody stopped. The ways in which a Stop can hang are stated by
`StopHangsOnlyOn` and `StopWaitsForLock` instead.

Fairness. A goroutine that can run runs (weak fairness per goroutine): the Go
scheduler is preemptive, and sending and validating have timeouts. Strong fairness
is used where a `select` with both a ticker and a closed stop channel ready picks
at random, so that it leaves its loop eventually and takes the ticker eventually;
where `Stop` waits for a `sync.Mutex` that is freed again and again (it is
starvation free); and for some worker taking a job of a domain that is queued
again and again. Producers, API calls, signals, Stop and crashes are never obliged
to happen. `WebhookConfigs` states its one liveness property, `BreakerRecovers`, under
`FairSpec`: a goroutine goes on with what it began, and events arrive again and again,
so that a configuration that can be loaded again and again is. The violation does not
come from that fairness: the configuration cannot be loaded at all. `InboundMail` and
`Accounts` state safety only: their requests may be abandoned at any statement.

Findings (the violation runs):

1. **Shutdown can hang** (`service_shutdown`). `Manager.Stop` waits for the workers
   before it closes the queue, and an idle worker sleeps in `cond.Wait`, which
   neither its stop channel nor the cancelled context wakes. A second way: the
   maintenance pass waits for the mutex `Stop` holds while `Stop` waits for it.
2. **The retry limit does not limit** (`domainvalidation_retry_limit`). Past the
   limit the next attempt is NULL, which the feeder's query reads as "now".
3. **An open breaker never recovers** (`webhook_breaker`). `CanAttemptDelivery` moves
   a breaker whose timeout has passed to half-open, but `GetActiveByDomainID` does not
   load configurations with an open breaker, so nothing ever asks.

Every property has a mutant: a small, plausible change of one definition (an
operator named `Definition_Change` just before it) under which TLC finds the
property violated.

## 4. What the excuses in the properties say about the code

Several properties hold only with an exception. Each exception is a behaviour of
the code that its readers should know.

* `ValidatingIsBeingDecided`: a failed statement, a shutdown in the middle or a
  stale edit can leave a domain in `validating`, which no query selects.
* `NoDuplicates`: a lost relay reply or two overlapping resends send a duplicate.
* `RetryWaits`: the counter is incremented before the delay is computed, so the
  first delay is 15 minutes, not the 5 the comment at `calculateNextRetryTime`
  gives; and from 16 failures on the delay may wrap to a negative duration, which
  makes the mail due at once.
* `AuditTellsEnabled`: audit records are written after and apart from the row, so
  those of two overlapping requests may end up in the other order, and one may be
  lost; a delivery or a health check that writes back a stale copy enables or disables
  a configuration without a record. The records of a configuration go with its row
  (`ON DELETE CASCADE`).
* `StopHangsOnlyOn` (email): `PopWithTimeout` looks at its context before it goes to
  sleep and nothing wakes it when the time is up. "Wait up to 1 second for a job"
  (`email_sender_worker.go:195`) does not hold for a worker that is asleep, and `Stop`
  waits for it until the next Push or Close.
* `CountersDriftTogether`: a retry that a worker reads itself is counted out of
  `QueueSize`, where it never was, and stays in `PendingRetries`: each gauge drifts
  without bound, in opposite directions, and only their sum is right.
* `StopWaitsForLock`: `Stop` waits, with `w.mu` held, for goroutines that wait for
  `w.mu`; only its timeout ends it.
* `MixedCaseHoldsOneMail`: an auto-created address keeps the sender's spelling,
  while lookups are in lower case, so it never receives a second mail.
* `StorageConsistent`: a stored message opens with a key the domain had while the
  message was being received, not with the domain's key of today. Replacing the key
  leaves older mail to the older key, and no column says which one that is.
* `LossNeedsRival`: apart from refusals, mail answered with 250 is lost where another
  request created, deleted or stored at the same address at the same time; where a
  statement failed (a failed lookup of the address counts as "not found"); and where
  the domain's key cannot encrypt. The last is no accident of timing: a key with fewer
  hexadecimal digits than it should have passes `ParsePublicKey` when the domain is
  created, an update is not parsed at all, and from then on every message of the
  domain is lost behind a 250.
* `StatisticsAgree`: without a filter `formatWhereClause` writes no `WHERE`, and the
  condition on the sender still begins with `AND`: the database refuses the statement,
  so a request for the top senders without parameters is always answered with an error.
* `StrandedNeedsFault`: `users` and `local_credentials` are inserted without a
  transaction; if the second insert fails, the account exists and has no password.
* `TokenNamesItsAccount`: holds while no lookup has failed and no account was
  deleted; after a deletion a row found by e-mail may carry another provider id.

Behaviour met on the way that no run is about: no migration creates
`domain_validation_records`, so on a migrated database each validation fails once
the domain is `validating`; the API's ValidateDomain and RetryValidation handlers
queue nothing; the verifier's default configuration never rejects, and the flag of
quarantined mail is not stored; SPF and DMARC look at the From header; a mail that
was refused leaves no statistics; the daemons build the webhook notifier without a
configuration loader and never start its worker, so as wired a notification
returns an error.

## 5. Theorems

All proofs are by an inductive invariant (named parts below) with one lemma or step
per action; the last step of each theorem is temporal logic. The assumptions are
those the component's module declares about its constants; TLC evaluates them in
the runs.

`JobQueueProofs`, for every set of jobs, finite set of consumers, capacity, order
and queue type:

* `TypeCorrect`: `Spec => []TypeOK`.
* `WakeupsAreNotLost`: `Spec => [](NoLostWakeup /\ NobodySleepsOnClosed)`. The two
  together are inductive given `TypeOK`: a Push adds one job and, if anybody
  sleeps, one woken goroutine; a pass of `Pop` removes a goroutine from `woken`
  only with a job, or when the queue is empty. `PopLoopWakeup` is the core lemma,
  `ConsumerSets` the cardinality facts it needs.
* `SizeIsBounded`: `Spec => []SizeBounded`.
* `JobsAreHandedOutOnce`: `Spec => []ExactlyOnce`, inductive given `TypeOK`. The
  lemmas about `RemoveAt` say that taking a position out of a slice without
  repetitions takes the job out.
* `QueueIsAPool`: `Spec => Pool!Safety`, the refinement of `WorkPool` without its
  fairness. A signal and the passes of `Pop` that go back to sleep are stutters.

`ValidationServiceProofs`, for every set of jobs, number of workers, queue type and
capacity:

* `TypeCorrect`; `JobsHaveOneOwner`: `Spec => []OneOwnerPerJob`; `JobsAreNotLost`:
  `Spec => []NoJobLost`. The invariant joins the queue's (`Q!TypeOK`,
  `Q!ExactlyOnce`) to `WorkersAgree` (a worker's program counter against the
  queue's wait set and return values) and `Accounted` (where an accepted job is,
  and that a refused deferred job is still scheduled). What `Push` and `Pop` do is
  taken from the lemmas of `JobQueueProofs`, whose assumptions are proved of the
  workers here.

`EmailWorkersProofs`, for every set of jobs, number of workers and attempts,
capacity and priorities:

* `TypeCorrect`; `JobsAreInOnePlace`: `Spec => []OnePlace`, from `OnePlaceEach`
  (exactly the worker between Pop and the end of its attempt holds the job) and
  `AttemptsLeft`; `CountersBalance`: `Spec => []StatsBalance`, from the cardinality
  of the set of workers between their two updates (`CountingSets`).
* `SettledJobsStay`, an action property no run states: a job that was sent, given up,
  refused or cleared keeps its place and is not attempted again. It follows from
  `OnePlaceEach`: what a worker pops or sends is queued or held.

`DomainValidationProofs`, for all sets of domains, workers, callers and spellings
and all limits:

* `TypeCorrect`.
* `OnlyEvidenceVerifies`: `Spec => []VerifiedHasEvidence`. Not inductive alone: the
  strengthening also says that a validator about to write `verified`, and a row
  image held by `UpdateDomain` with that status, belong to a domain in `passed`.
* `NothingStuckUnlessDisturbed`: `Spec => []ValidatingIsBeingDecided`. The
  strengthening `OpWant` ties the operation and the status a validator wants to
  the statement it is at, so that the one that moved a domain to `validating` is
  known to be on its way to an outcome.

`OutboundMailProofs`, for all sets of emails and goroutines and every retry limit:

* `TypeCorrect`, with `Headroom`: a message about to be sent can count one more
  failure.
* `SentMeansAccepted`: `Spec => []SentWasAccepted`, with `Evidence`: a goroutine
  about to write `sent` has seen the relay take the message.
* `DuplicatesHaveACause`: `Spec => []NoDuplicates`, and `RowsAreTrue`:
  `Spec => []SettledRowIsTrue`. The strengthening `Truth` says that an undisturbed
  row has at most one goroutine at work on it and that the goroutine's next
  statement agrees with what the relay has (`OnTrack`).
* `SentRowsAreKept`: `Spec => SentIsKept`, an action property, from the two before.
* `RetriesWait`: `Spec => RetryWaits`, an action property. `TimesColumns` shows that
  `Times` is long multiplication, `Tripled` and `NextRound` follow the loop, and
  `SafeDelays` computes the powers up to 3^15 and bounds the top limb of the delay
  (`NoOverflow`). `Delayed` carries this from `MarkAsFailed` to the write.

`WebhookProofs`, first part, for all sets of configurations, domains, users, names and
goroutines, every threshold and either kind of identity:

* `TypeCorrect`; `NamesStayUnique`: `Spec => []NamesUnique`.
* `RecoveryIsDead`: `Spec => []NeverHalfOpen`. Needs `Sound`: what is being
  delivered was loaded with a closed breaker.
* `LogTellsEnabled`: `Spec => []AuditTellsEnabled`. Needs `AuditInv`: a copy to be
  written says what its record will say (`CopyTells`), and every record to come agrees
  with the row and, when none is to come, the log does (`LogAgrees`).
* `OpenBreakersStay`: `Spec => OpenIsLeftOnlyByStaleWrite`, an action property no run
  states: what finding 3 leaves, that a breaker is closed again by a stale whole-row
  write and by nothing else.
  Needs `Fresh`: a copy that calls an open breaker closed is in `stale`; and
  `InsertsAlone`: an id about to be inserted has one holder, so that no INSERT
  meets a row that exists.

`WebhookProofs`, second part, about the delivery of webhooks, for all sets of jobs and
workers, also infinite ones, every buffer and every positive number of attempts:

* `DeliveryIsSound`: `TypeOK` and `Located` (a job that waits is at one position of
  one of the three lines, the job channel, the retry channel or the retry slice, and
  in no worker's hands; a job being sent is in one worker's; a settled job is
  nowhere) are inductive together. `Taken`, `Put`, `Moved`, `Handed` and `Dropped`
  say what the moves between lines and hands do to the places of all jobs.
* `CountersAddUp`: `W!Spec => []CountersDriftTogether`. `Counted` counts: the two
  counters are the lengths of the lines, the jobs in hands and the jobs lost with the
  retry slice, less the additions outstanding. It needs `Finite` (only finitely many
  jobs are under way), `LineSize` (a line without repetitions is as long as it has
  jobs) and `Recount`, one case for each way a step moves a job between the sets.
* `FatesAreFinal`, an action property no run states: a webhook whose fate is settled
  is not attempted again and keeps its fate.

`InboundMailProofs`, for all sets of sessions, addresses, messages and spellings and
everything the resolver and the verifier's other sources may say:

* `TypeCorrect`; `StorageIsConsistent`: `Spec => []StorageConsistent`;
  `MixedCaseNeverFillsUp`: `Spec => []MixedCaseHoldsOneMail`; `LossHasACause`:
  `Spec => []LossNeedsRival`. One invariant: `Housed` (mail has a live address, live
  addresses differ), `Informed` (a session's key is one the domain has had since the
  session read its row, its address stands for its recipient, and what it is about to
  insert was sealed with that key), `Kept` (the same of stored mail), `Bounded` (the sequence numbers have a maximum, so the next is
  new), `Unused` (an id never inserted is nobody's), `OneWriter` (an address with a
  capital letter is known only to the session that created it) and `Undisturbed`
  (what a session knows at each statement if nobody interfered).
* `PassesHaveACause`: `Spec => []PassIsAuthorised`. `PassIsFound` is an induction
  over the levels of SPF includes: a pass at level k + 1 is a `+` mechanism that
  matches, or an include of a domain that passes at level k. DMARC follows by cases.
* `ContentAloneIsNoVerdict`: `Spec => []GoodSenderIsAccepted`: the reputation
  scores at least 700 thousandths, so the risk is at most 90 for it and 400 for the
  content, below the 500 of quarantine.
* `InboxIsTruthful`: `Spec => []InboxShowsMail`, for every set of histories. Rows of
  the join are finitely many (`RowFacts`); a message that is alone joins with its own
  statistics or none (`AloneHasOwn`); the four status conditions exclude one another
  and leave nothing out (`OneStatus`). For the pages: a finite set can be listed in
  descending order of a key (`RankingExists`, by induction over its size), in one way
  if no keys tie (`RankIsPlace`: the place of an element is the number of elements
  not below it; `RankingUnique`), and a sequence cut into pages is whole again when
  they are joined (`FlattenPages`, `PagesShowAll`). Sequence numbers of an address
  never tie (`SequenceNumbersDiffer`).
* `ReportsAlwaysAgree`: `Spec => []StatisticsAgree`, for tables of any length. `FibreSum`
  shows that a sum of the sizes of the groups of a finite set is its size, whichever
  way the fold goes through the groups; the overview, the six distributions and the
  timeline at each granularity are instances. `TopSendersLead` shows the ranking, from
  the lemmas on listings: what a limit cuts off comes later in a listing by descending
  counts. The pages of a domain use the same lemmas.

`AccountsProofs`, for all sets of ids, addresses, names and requests, every
idempotent normalisation of addresses and any tokens minted elsewhere:

* `TypeCorrect`, with the uniqueness of addresses and names.
* `StrandedAccountsHaveACause` and `TokensNameTheirAccount`. Both follow from
  `Regular`: while nothing failed and nobody was deleted, the provider id of each
  row is its own id, a request at the provider lookup asks for the account it was
  authenticated for, and that row exists, so the branch of
  `GetOrCreateUserByAuthProvider` that creates a second account is not reached.
  `Ids` says that a drawn id belongs to one request and to no row, `Locals` which
  locals a handler has set at each statement.
* `DeletedAccountsAreSilent`, from `ForeignKey` (a domain's owner has a row) and
  `Ids` (a deleted id is in no row, and nobody is about to insert it).

Induction. The library's induction theorems take an operator, which the provers
cannot instantiate. `NumberInduction` states induction for a set of numbers and
follows from the well-foundedness of `<`; with it a recursive function is shown to
solve its equation (`EvalExists`, `WithinExists`, `FibreSum`, `FlattenPages`) and facts
follow level by level.

Only model-checked: liveness (`CloseReleases`, `AcceptedJobsFinish`, `JobsFinish`,
`PendingIsDecided`, `StopHangsOnlyOn`, `StopWaitsForLock`, `JobsSettle`) and with it
the fairness of `ImplementsWorkPool`, which are beyond the prover, and the three
violations. Every invariant and
every action property of the passing runs is stated by a theorem; the two listings of
`InboxShowsMail` are proved for the page sizes it names, 1 and 2.

## 6. Not modelled

* **Legacy worker manager** (`worker_manager.go`): only its tests use it.
* **HTTP API and middleware** beyond the handlers named above: routing, decoding,
  formatting. Rate limiter and cache are constructed by no program.
* **Repositories** as such: each SQL statement is a step of the module whose use
  case sends it. Listings that return rows unchanged are left out.
* **Configuration, logging, metrics, generated API documentation, rendering of
  MIME and HTML**: text and I/O without state of their own.
* **Parts of modelled components**: restarting a validation `Manager` or an email
  worker after Stop (no caller does); the SMTP dialogue inside the relay client and
  before DATA; header parsing; token expiry, account types, password rules; single
  MX and TXT checks and the history of validations (no caller); `CleanupOldStats`
  (no caller); averages and health figures that nothing reads.
* **Cryptography** is ideal: a sealed body opens with its own key only, and a
  valid token was signed with the secret.

## 7. Plan

Done: the modules and runs of sections 2 and 3 and the theorems of section 5, which
state every invariant and every action property of the passing runs.

Next:

1. `PagesShowAll` for every page size, and with it `InboxIsTrue` for all of 1..1000.
2. `DomainValidation` and `Accounts`: action properties (what a step may never do)
   beside the invariants proved.
