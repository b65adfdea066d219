-------------------------- MODULE DomainValidation --------------------------
(***************************************************************************)
(* How a domain becomes verified: the validation use case                  *)
(* (domain/validation/usecase.go) run by the workers on the jobs that the  *)
(* feeder of cmd/worker/main.go queues, against the rows of the domains    *)
(* table, which the API edits at the same time (domain/domain/usecase.go). *)
(* Every SQL statement is one step and may fail (connection lost, context  *)
(* expired or cancelled); nothing spans two statements in a transaction.   *)
(***************************************************************************)
EXTENDS Integers, FiniteSets, DNSService

CONSTANTS
    Domain,       \* domain rows (their UUIDs)
    Worker,       \* goroutines that validate queued jobs
    Caller,       \* goroutines that call one of the two retry operations
    TXTRecord,    \* the TXT record that proves a domain: the prefix and its token
    MaxRetries,   \* ValidationConfig.MaxRetries
    MaxQueued     \* bound: jobs queued for one domain (QueueSize bounds them all)

ASSUME TXTRecordAssumption  == TXTRecord \in [Domain -> Spelling]
ASSUME MaxRetriesAssumption == MaxRetries \in Nat
ASSUME MaxQueuedAssumption  == MaxQueued \in Nat

VARIABLES
    status,       \* domains.verification_status, "absent" before the row exists
                  \* and "gone" after its deletion
    attempts,     \* domains.verification_attempts, counted up to MaxRetries: the
                  \* code only asks whether it is below
    next,         \* domains.next_verification_attempt: "null", "later" or "due";
                  \* Go's zero time is "due"
    queued,       \* validation jobs in the queue, per domain
    work,         \* what each validator is doing: the statement it runs next, its
                  \* operation, its domain, the status it is setting, the attempts
                  \* it has read
    snap,         \* the row UpdateDomain has read and not written back yet
    passed,       \* history: the domains some DNS check of which has found the
                  \* records that prove them
    disturbed     \* history: the domains on which a statement failed, a process
                  \* died in the middle, or an edit wrote back a stale status

Validator == Worker \cup Caller

rowVars  == <<status, attempts, next>>
vars == <<rowVars, queued, work, snap, passed, disturbed>>

Statuses == {"pending", "validating", "verified", "failed"}
Ops      == {"ValidateDomain", "RetryDomainValidation", "RetryValidation", "handleJobRetry"}
Work     == [pc : {"get", "set", "read", "write", "record", "dns"}, op : Ops,
             dom : Domain, want : Statuses, seen : 0..MaxRetries]
Idle     == [pc |-> "idle"]
Row      == [status : Statuses, attempts : 0..MaxRetries, next : {"later", "due"}]
NoRow    == [status |-> "none"]

TypeOK ==
    /\ status \in [Domain -> Statuses \cup {"absent", "gone"}]
    /\ attempts \in [Domain -> 0..MaxRetries]
    /\ next \in [Domain -> {"null", "later", "due"}]
    /\ queued \in [Domain -> 0..MaxQueued]
    /\ work \in [Validator -> Work \cup {Idle}]
    /\ snap \in [Domain -> Row \cup {NoRow}]
    /\ passed \subseteq Domain
    /\ disturbed \subseteq Domain

Init ==
    /\ status = [d \in Domain |-> "absent"]
    /\ attempts = [d \in Domain |-> 0]
    /\ next = [d \in Domain |-> "null"]
    /\ queued = [d \in Domain |-> 0]
    /\ work = [v \in Validator |-> Idle]
    /\ snap = [d \in Domain |-> NoRow]
    /\ passed = {}
    /\ disturbed = {}

Exists(d) == status[d] \in Statuses
CountUp(n) == IF n < MaxRetries THEN n + 1 ELSE n

-----------------------------------------------------------------------------
(* The API: CreateDomain, UpdateDomain, DeleteDomain.                      *)

\* The new row's attempt times are Go zero values, not NULL.
CreateDomain(d) ==
    /\ status[d] = "absent"
    /\ status' = [status EXCEPT ![d] = "pending"]
    /\ next' = [next EXCEPT ![d] = "due"]
    /\ UNCHANGED <<attempts, queued, work, snap, passed, disturbed>>

\* scanDomain: a NULL time becomes the zero time.
Scanned(d) ==
    [status |-> status[d], attempts |-> attempts[d],
     next |-> IF next[d] = "later" THEN "later" ELSE "due"]

\* UpdateDomain reads the whole row, ...
UpdateDomain_Read(d) ==
    /\ Exists(d) /\ snap[d] = NoRow
    /\ snap' = [snap EXCEPT ![d] = Scanned(d)]
    /\ UNCHANGED <<rowVars, queued, work, passed, disturbed>>

\* ... changes what the request gives, none of it modelled, and writes every column of it back, the verification columns included;
\* the statement finds no row, or fails, when there is nothing to write.
UpdateDomain_Write(d) ==
    /\ snap[d] # NoRow
    /\ snap' = [snap EXCEPT ![d] = NoRow]
    /\ \/ /\ Exists(d)
          /\ status' = [status EXCEPT ![d] = snap[d].status]
          /\ attempts' = [attempts EXCEPT ![d] = snap[d].attempts]
          /\ next' = [next EXCEPT ![d] = snap[d].next]
          /\ disturbed' = IF snap[d].status = status[d] THEN disturbed ELSE disturbed \cup {d}
       \/ UNCHANGED <<rowVars, disturbed>>
    /\ UNCHANGED <<queued, work, passed>>

DeleteDomain(d) ==
    /\ Exists(d)
    /\ status' = [status EXCEPT ![d] = "gone"]
    /\ attempts' = [attempts EXCEPT ![d] = 0]
    /\ next' = [next EXCEPT ![d] = "null"]
    /\ UNCHANGED <<queued, work, snap, passed, disturbed>>

-----------------------------------------------------------------------------
(* The feeder and the clock.                                               *)

\* GetDomainsNeedingVerification selects the row.
NeedsVerification_NullOnly(d) == status[d] \in {"pending", "failed"} /\ next[d] = "null"

NeedsVerification(d) == status[d] \in {"pending", "failed"} /\ next[d] \in {"null", "due"}

Feed_NoBound(d) ==
    /\ NeedsVerification(d)
    /\ queued' = [queued EXCEPT ![d] = @ + 1]
    /\ UNCHANGED <<rowVars, work, snap, passed, disturbed>>

\* processDomainsNeedingValidation queues a job for a row that was selected,
\* whether or not one is already queued or running.
Feed(d) ==
    /\ NeedsVerification(d)
    /\ queued[d] < MaxQueued
    /\ queued' = [queued EXCEPT ![d] = @ + 1]
    /\ UNCHANGED <<rowVars, work, snap, passed, disturbed>>

\* The retry delay passes.
Elapse(d) ==
    /\ next[d] = "later"
    /\ next' = [next EXCEPT ![d] = "due"]
    /\ UNCHANGED <<status, attempts, queued, work, snap, passed, disturbed>>

-----------------------------------------------------------------------------
(* The use case, one statement per step.                                   *)

Dom(v) == work[v].dom

Become(v, r) == work' = [work EXCEPT ![v] = r]

At(label, o, d, w, n) == [pc |-> label, op |-> o, dom |-> d, want |-> w, seen |-> n]

\* v runs the statement `label' next, to set the status w.
Goto(v, label, w) ==
    Become(v, IF label = "idle" THEN Idle ELSE At(label, work[v].op, Dom(v), w, 0))

Begin(v, d, o, label, w) ==
    /\ work[v] = Idle
    /\ Become(v, At(label, o, d, w, 0))
    /\ UNCHANGED <<rowVars, snap, passed, disturbed>>

\* A worker pops a job and calls ValidateDomain.
Take(v, d) ==
    /\ queued[d] > 0
    /\ queued' = [queued EXCEPT ![d] = @ - 1]
    /\ Begin(v, d, "ValidateDomain", "get", "validating")

\* RetryDomainValidation and RetryValidation reset the status first.
Retry(v, d) ==
    /\ Exists(d)
    /\ \E o \in {"RetryDomainValidation", "RetryValidation"} : Begin(v, d, o, "set", "pending")
    /\ UNCHANGED queued

\* A statement fails.
Failure(v) == disturbed' = disturbed \cup {Dom(v)}

\* The use case returns an error.  A worker's job is then marked failed if one
\* attempt is all it has, and is otherwise forgotten.
ReturnError(v) ==
    IF work[v].op = "ValidateDomain" /\ MaxRetries <= 1
    THEN Become(v, At("set", "handleJobRetry", Dom(v), "failed", 0))
    ELSE Become(v, Idle)

\* domainRepo.GetByID at the start of ValidateDomain and in RetryValidation.
GetByID(v) ==
    /\ work[v].pc = "get"
    /\ \/ /\ Exists(Dom(v))
          /\ Goto(v, IF work[v].op = "RetryValidation" THEN "dns" ELSE "set", "validating")
          /\ UNCHANGED disturbed
       \/ ReturnError(v) /\ Failure(v)
    /\ UNCHANGED <<rowVars, queued, snap, passed>>

\* Where UpdateValidationStatus returns to.  Only the reset to pending looks at
\* its error.  After the outcome ValidateDomain completes its validation record,
\* logging an error, and returns: nothing else reads the record.
AfterUpdate(v, err) ==
    CASE work[v].want = "pending"    -> IF err = "nil" THEN "get" ELSE "idle"
      [] work[v].want = "validating" -> "record"
      [] OTHER                       -> "idle"

UpdateFails(v) ==
    /\ Goto(v, AfterUpdate(v, "error"), work[v].want)
    /\ Failure(v)
    /\ UNCHANGED rowVars

\* The two UPDATEs; without an error when the row is gone.
UpdateDomainVerificationStatus(d, w) ==
    status' = [status EXCEPT ![d] = IF Exists(d) THEN w ELSE @]

UpdateDomainVerificationAttempt(d, n, time) ==
    /\ attempts' = [attempts EXCEPT ![d] = IF Exists(d) THEN n ELSE @]
    /\ next' = [next EXCEPT ![d] = IF Exists(d) THEN time ELSE @]

\* CalculateRetryDelay is positive: a next attempt is always in the future.  It
\* is only scheduled for a failure below the limit.
NextAttempt(w, n) == IF w = "failed" /\ n < MaxRetries THEN "later" ELSE "null"

\* UpdateValidationStatus: UpdateDomainVerificationStatus, ...
UpdateStatus_Set(v) ==
    /\ work[v].pc = "set"
    /\ \/ /\ UpdateDomainVerificationStatus(Dom(v), work[v].want)
          /\ Goto(v, "read", work[v].want)
          /\ UNCHANGED <<attempts, next, disturbed>>
       \/ UpdateFails(v)
    /\ UNCHANGED <<queued, snap, passed>>

\* ... GetByID, ...
UpdateStatus_Read(v) ==
    /\ work[v].pc = "read"
    /\ \/ /\ Exists(Dom(v))
          /\ Become(v, At("write", work[v].op, Dom(v), work[v].want,
                          CountUp(attempts[Dom(v)])))
          /\ UNCHANGED <<rowVars, disturbed>>
       \/ UpdateFails(v)
    /\ UNCHANGED <<queued, snap, passed>>

\* ... UpdateDomainVerificationAttempt, also to clear the next attempt.
UpdateStatus_Write(v) ==
    /\ work[v].pc = "write"
    /\ \/ /\ UpdateDomainVerificationAttempt(Dom(v), work[v].seen,
                                             NextAttempt(work[v].want, work[v].seen))
          /\ Goto(v, AfterUpdate(v, "nil"), work[v].want)
          /\ UNCHANGED <<status, disturbed>>
       \/ UpdateFails(v)
    /\ UNCHANGED <<queued, snap, passed>>

\* CreateValidationRecord.  An error leaves ValidateDomain with the status already
\* set to validating.  No migration creates the table it writes to, so that it
\* always fails on a database the migrations made.
CreateRecord(v) ==
    /\ work[v].pc = "record"
    /\ \/ Goto(v, "dns", work[v].want) /\ UNCHANGED disturbed
       \/ ReturnError(v) /\ Failure(v)
    /\ UNCHANGED <<rowVars, queued, snap, passed>>

\* How each domain's check can end.
CheckOutcomes == [d \in Domain |-> Outcomes(TXTRecord[d])]

DNSCheck_ReturnsEarly(v) ==
    /\ work[v].pc = "dns"
    /\ \E o \in CheckOutcomes[Dom(v)] :
          /\ IF o.valid THEN Goto(v, "set", "verified") ELSE Goto(v, "idle", "failed")
          /\ passed' = IF o.proven THEN passed \cup {Dom(v)} ELSE passed
    /\ UNCHANGED <<rowVars, queued, snap, disturbed>>

\* ValidateFullDomain runs, and OverallValid decides which status is set next.
DNSCheck(v) ==
    /\ work[v].pc = "dns"
    /\ \E o \in CheckOutcomes[Dom(v)] :
          /\ Goto(v, "set", IF o.valid THEN "verified" ELSE "failed")
          /\ passed' = IF o.proven THEN passed \cup {Dom(v)} ELSE passed
    /\ UNCHANGED <<rowVars, queued, snap, disturbed>>

\* The worker process dies or is shut down (which cancels every job's context)
\* and starts again: running operations and the queue are gone.
Restart ==
    /\ work' = [v \in Validator |-> Idle]
    /\ queued' = [d \in Domain |-> 0]
    /\ disturbed' = disturbed \cup
                        {d \in Domain : \E v \in Validator : work[v] # Idle /\ Dom(v) = d}
    /\ UNCHANGED <<rowVars, snap, passed>>

-----------------------------------------------------------------------------

Step(v) ==
    \/ GetByID(v)
    \/ UpdateStatus_Set(v)
    \/ UpdateStatus_Read(v)
    \/ UpdateStatus_Write(v)
    \/ CreateRecord(v)
    \/ DNSCheck(v)

Next ==
    \/ \E d \in Domain :
          \/ CreateDomain(d)
          \/ UpdateDomain_Read(d)
          \/ UpdateDomain_Write(d)
          \/ DeleteDomain(d)
          \/ Feed(d)
          \/ Elapse(d)
    \/ \E v \in Validator : Step(v)
    \/ \E v \in Worker, d \in Domain : Take(v, d)
    \/ \E v \in Caller, d \in Domain : Retry(v, d)
    \/ Restart

\* The feeder's ticker keeps firing and each tick takes every eligible row (there
\* are fewer than the 50 of its LIMIT), time passes, statements return, and the
\* workers keep popping; nobody is obliged to use the API.
Fairness ==
    /\ \A d \in Domain : WF_vars(Feed(d)) /\ WF_vars(Elapse(d))
    /\ \A d \in Domain : SF_vars(\E v \in Worker : Take(v, d))
    /\ \A v \in Validator : WF_vars(Step(v))

Spec == Init /\ [][Next]_vars /\ Fairness

-----------------------------------------------------------------------------
(* Properties.                                                             *)

\* A domain is only ever marked verified after a DNS check of that domain found
\* both records, whatever retries, duplicate jobs and stale edits are under way.
VerifiedHasEvidence == \A d \in Domain : status[d] = "verified" => d \in passed

\* v has set its domain to validating and has yet to set the outcome.
Validating(v) ==
    /\ work[v] # Idle
    /\ work[v].op \in {"ValidateDomain", "RetryDomainValidation"}
    /\ \/ work[v].pc \in {"read", "write"} /\ work[v].want = "validating"
       \/ work[v].pc \in {"record", "dns"}
       \/ work[v].pc = "set" /\ work[v].want \in {"verified", "failed"}

\* A domain shown as validating has a validation under way that will decide it,
\* unless a statement failed, the process died or a stale edit interfered: only
\* those leave a domain in a state that no query of the feeder selects.
ValidatingIsBeingDecided ==
    \A d \in Domain :
        (status[d] = "validating" /\ d \notin disturbed)
            => \E v \in Validator : Validating(v) /\ Dom(v) = d

\* A pending domain is eventually verified, failed or deleted, unless disturbed.
PendingIsDecided ==
    \A d \in Domain :
        status[d] = "pending" ~> (status[d] \in {"verified", "failed", "gone"} \/ d \in disturbed)

\* "If failed and under retry limit, schedule next attempt": once a domain has
\* used up its retries, no further job is queued for it by itself.
RetryLimit ==
    [][\A d \in Domain : queued'[d] > queued[d] /\ status[d] = "failed"
                             => attempts[d] < MaxRetries]_vars
=============================================================================
