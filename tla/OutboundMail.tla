----------------------------- MODULE OutboundMail -----------------------------
(***************************************************************************)
(* Outbound mail: domain/email_sending/usecase.go over the sent_emails     *)
(* table (gateways/repository/pg/sent_email.go) and the SMTP relay         *)
(* (internal/smtprelay/sender.go).  Several goroutines send, resend and    *)
(* run the retry queue at once.  A row is read, the relay is called with   *)
(* no lock held, and the whole row is written back; each of the three may  *)
(* fail, and the relay may take a message whose reply is then lost.        *)
(***************************************************************************)
EXTENDS Integers, FiniteSets, Backoff

CONSTANTS
    Email,        \* sent_emails rows (every SendEmail creates a new one)
    Sender,       \* goroutines that call the use case
    MaxRetries    \* SentEmail.MaxRetries, from the request

ASSUME MaxRetriesAssumption == MaxRetries \in Nat

VARIABLES
    status,       \* sent_emails.status, "absent" before the row exists
    retries,      \* sent_emails.retry_count
    retryAt,      \* sent_emails.next_retry_at: "null", "later" or "due"
    task,         \* what each goroutine is doing: its step, the email and the
                  \* copy of the row that it holds in memory
    batch,        \* what is left of the rows each ProcessRetryQueue has selected
    accepted,     \* external: how many copies of the message the relay has taken
                  \* (2 stands for any larger number)
    disturbed     \* history: rows on which a statement failed, a relay reply was
                  \* lost, a process died or two operations overlapped

rowVars == <<status, retries, retryAt>>
vars == <<rowVars, task, batch, accepted, disturbed>>

\* A first failure counts even when no retry is allowed.
RetryCap == IF MaxRetries = 0 THEN 1 ELSE MaxRetries

Copy == [status : {"pending", "sent", "failed"}, retries : 0..RetryCap,
         retryAt : {"null", "later", "due"}]
Task == [at : {"create", "get", "send", "update"}, email : Email, copy : Copy]
Idle == [at |-> "idle"]
New  == [status |-> "pending", retries |-> 0, retryAt |-> "null"]

TypeOK ==
    /\ status \in [Email -> {"absent", "pending", "sent", "failed"}]
    /\ retries \in [Email -> 0..RetryCap]
    /\ retryAt \in [Email -> {"null", "later", "due"}]
    /\ task \in [Sender -> Task \cup {Idle}]
    /\ batch \in [Sender -> SUBSET Email]
    /\ accepted \in [Email -> 0..2]
    /\ disturbed \subseteq Email

Init ==
    /\ status = [e \in Email |-> "absent"]
    /\ retries = [e \in Email |-> 0]
    /\ retryAt = [e \in Email |-> "null"]
    /\ task = [s \in Sender |-> Idle]
    /\ batch = [s \in Sender |-> {}]
    /\ accepted = [e \in Email |-> 0]
    /\ disturbed = {}

-----------------------------------------------------------------------------
(* domain/entities/sent_email.go.                                          *)

CanRetry(c) == c.status = "failed" /\ c.retries < MaxRetries

\* The retry counts whose delay is not in the past.
Waits == {n \in 0..RetryCap : InFuture(n)}

\* A failure that exhausts the retries leaves the old next_retry_at in place.
MarkAsFailed(c) ==
    [status  |-> "failed",
     retries |-> c.retries + 1,
     retryAt |-> IF c.retries + 1 >= MaxRetries THEN c.retryAt
                 ELSE IF c.retries + 1 \in Waits THEN "later" ELSE "due"]

MarkAsSent(c) == [status |-> "sent", retries |-> c.retries, retryAt |-> c.retryAt]

\* The row as GetSentEmail scans it.
RowOf(e) == [status |-> status[e], retries |-> retries[e], retryAt |-> retryAt[e]]

-----------------------------------------------------------------------------
(* The use case.                                                           *)

Busy(e) == {s \in Sender : task[s] # Idle /\ task[s].email = e}

Become(s, t) == task' = [task EXCEPT ![s] = t]

At(label, e, c) == [at |-> label, email |-> e, copy |-> c]

Begin(s, label, e) ==
    /\ task[s] = Idle
    /\ Become(s, At(label, e, New))
    /\ disturbed' = IF Busy(e) = {} THEN disturbed ELSE disturbed \cup {e}
    /\ UNCHANGED <<rowVars, accepted>>

Disturb(s) == disturbed' = disturbed \cup {task[s].email}

\* SendEmail with a valid request: the row does not exist yet and no other
\* goroutine knows its UUID.
SendEmail(s, e) ==
    /\ status[e] = "absent" /\ Busy(e) = {}
    /\ batch[s] = {}
    /\ Begin(s, "create", e)
    /\ UNCHANGED batch

\* ResendEmail, called for any row.
ResendEmail(s, e) ==
    /\ status[e] # "absent"
    /\ batch[s] = {}
    /\ Begin(s, "get", e)
    /\ UNCHANGED batch

\* ProcessRetryQueue selects the rows that are due ...
ProcessRetryQueue(s) ==
    /\ task[s] = Idle /\ batch[s] = {}
    /\ batch' = [batch EXCEPT ![s] =
                    {e \in Email : status[e] = "failed" /\ retries[e] < MaxRetries
                                       /\ retryAt[e] = "due"}]
    /\ UNCHANGED <<rowVars, task, accepted, disturbed>>

\* ... and resends them one after the other, whatever has happened to them since.
ProcessNext(s, e) ==
    /\ e \in batch[s]
    /\ Begin(s, "get", e)
    /\ batch' = [batch EXCEPT ![s] = @ \ {e}]

\* CreateSentEmail; on an error nothing is sent.
CreateSentEmail(s) ==
    /\ task[s].at = "create"
    /\ \/ /\ status' = [status EXCEPT ![task[s].email] = "pending"]
          /\ Become(s, At("send", task[s].email, New))
          /\ UNCHANGED <<retries, retryAt, disturbed>>
       \/ Become(s, Idle) /\ Disturb(s) /\ UNCHANGED rowVars
    /\ UNCHANGED <<batch, accepted>>

GetSentEmail_NoCheck(s) ==
    LET c == RowOf(task[s].email) IN
    /\ task[s].at = "get"
    /\ Become(s, At("send", task[s].email,
                    [status |-> "pending", retries |-> c.retries, retryAt |-> c.retryAt]))
    /\ UNCHANGED <<rowVars, batch, accepted, disturbed>>

\* GetSentEmail and the CanRetry test.
GetSentEmail(s) ==
    LET c == RowOf(task[s].email) IN
    /\ task[s].at = "get"
    /\ \/ /\ CanRetry(c)
          /\ Become(s, At("send", task[s].email,
                          [status |-> "pending", retries |-> c.retries, retryAt |-> c.retryAt]))
          /\ UNCHANGED disturbed
       \/ ~CanRetry(c) /\ Become(s, Idle) /\ UNCHANGED disturbed
       \/ Become(s, Idle) /\ Disturb(s)
    /\ UNCHANGED <<rowVars, batch, accepted>>

\* sender.Send: the relay takes the message and says so, or refuses it, or takes
\* it and the reply to DATA is lost, which is an error too.
Accept(e) == accepted' = [accepted EXCEPT ![e] = IF @ < 2 THEN @ + 1 ELSE 2]

Send_ErrorIgnored(s) ==
    LET e == task[s].email
        c == task[s].copy IN
    /\ task[s].at = "send"
    /\ Become(s, At("update", e, MarkAsSent(c)))
    /\ Accept(e) \/ UNCHANGED accepted
    /\ UNCHANGED <<rowVars, batch, disturbed>>

Send(s) ==
    LET e == task[s].email
        c == task[s].copy IN
    /\ task[s].at = "send"
    /\ \/ Accept(e) /\ Become(s, At("update", e, MarkAsSent(c))) /\ UNCHANGED disturbed
       \/ UNCHANGED accepted /\ Become(s, At("update", e, MarkAsFailed(c))) /\ UNCHANGED disturbed
       \/ Accept(e) /\ Become(s, At("update", e, MarkAsFailed(c))) /\ Disturb(s)
    /\ UNCHANGED <<rowVars, batch>>

UpdateSentEmail_OnlyOnSuccess(s) ==
    LET e == task[s].email
        c == task[s].copy IN
    /\ task[s].at = "update"
    /\ IF c.status = "sent"
       THEN status' = [status EXCEPT ![e] = "sent"] /\ UNCHANGED <<retries, retryAt>>
       ELSE UNCHANGED rowVars
    /\ Become(s, Idle)
    /\ UNCHANGED <<batch, accepted, disturbed>>

\* UpdateSentEmail writes every column; its error is only logged.
UpdateSentEmail(s) ==
    LET e == task[s].email
        c == task[s].copy IN
    /\ task[s].at = "update"
    /\ \/ /\ status' = [status EXCEPT ![e] = c.status]
          /\ retries' = [retries EXCEPT ![e] = c.retries]
          /\ retryAt' = [retryAt EXCEPT ![e] = c.retryAt]
          /\ UNCHANGED disturbed
       \/ UNCHANGED rowVars /\ Disturb(s)
    /\ Become(s, Idle)
    /\ UNCHANGED <<batch, accepted>>

\* The process dies between two steps.
Die(s) ==
    /\ task[s] # Idle
    /\ Become(s, Idle)
    /\ batch' = [batch EXCEPT ![s] = {}]
    /\ Disturb(s)
    /\ UNCHANGED <<rowVars, accepted>>

\* The backoff delay passes.
Elapse(e) ==
    /\ retryAt[e] = "later"
    /\ retryAt' = [retryAt EXCEPT ![e] = "due"]
    /\ UNCHANGED <<status, retries, task, batch, accepted, disturbed>>

-----------------------------------------------------------------------------

Step(s) ==
    \/ CreateSentEmail(s)
    \/ GetSentEmail(s)
    \/ Send(s)
    \/ UpdateSentEmail(s)

Next ==
    \/ \E s \in Sender, e \in Email : SendEmail(s, e) \/ ResendEmail(s, e) \/ ProcessNext(s, e)
    \/ \E s \in Sender : ProcessRetryQueue(s) \/ Step(s) \/ Die(s)
    \/ \E e \in Email : Elapse(e)

Spec == Init /\ [][Next]_vars

-----------------------------------------------------------------------------
(* Properties.                                                             *)

\* A row that says "sent" was taken by the relay at least once, whatever
\* overlapping resends and failed updates did to it.
SentWasAccepted == \A e \in Email : status[e] = "sent" => accepted[e] > 0

\* The relay is given a message twice only if something failed half-way or two
\* operations on the row overlapped: one failure-free sequence of retries never
\* sends a duplicate.
NoDuplicates == \A e \in Email : accepted[e] > 1 => e \in disturbed

\* When nobody works on an undisturbed row it tells the truth: it is no longer
\* pending, and it says "sent" exactly if the relay has the message.
SettledRowIsTrue ==
    \A e \in Email :
        (status[e] # "absent" /\ e \notin disturbed /\ Busy(e) = {})
            => /\ status[e] \in {"sent", "failed"}
               /\ status[e] = "sent" <=> accepted[e] = 1

\* The largest RetryCount whose delay does not wrap around.
SafeRetries == 15

\* A failure that leaves a retry is followed by a wait: up to SafeRetries the
\* delay has not overflowed into the past, where the retry queue would send the
\* message again at once.  MaxRetries comes from the request without a cap.
RetryWaits ==
    [][\A e \in Email :
          (/\ status'[e] = "failed" /\ retries'[e] > retries[e]
           /\ retries'[e] < MaxRetries /\ retries'[e] <= SafeRetries)
              => retryAt'[e] = "later"]_vars

\* What was sent stays sent: only an overlapping resend, working on the copy it
\* read before, turns a sent row into a failed one.
SentIsKept ==
    [][\A e \in Email : (status[e] = "sent" /\ e \notin disturbed) => status'[e] = "sent"]_vars
=============================================================================
