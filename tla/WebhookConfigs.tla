---------------------------- MODULE WebhookConfigs ----------------------------
(***************************************************************************)
(* Webhook configurations and their circuit breaker: the API handlers      *)
(* (app/api/v1/webhook_configs), the use case (domain/webhook_config), the *)
(* table (gateways/repository/pg/webhook_config.go) and synchronous        *)
(* delivery (internal/webhook/notification.go, config_loader.go).          *)
(*                                                                         *)
(* Everybody who changes a row reads it whole, works on the copy with no   *)
(* lock held and writes the whole copy back.  A request that is refused    *)
(* (401, 400, 404, not the owner) or whose read fails changes nothing and  *)
(* is a stuttering step.                                                   *)
(***************************************************************************)
EXTENDS Integers

CONSTANTS
    Config,       \* configuration ids; an id is used once
    Domain,       \* domains
    User,         \* users
    Owner,        \* domains.user_id, which never changes
    Name,         \* configuration names
    Actor,        \* goroutines: API requests and deliveries of one event to one
                  \* configuration
    IdentityKind, \* what the authentication middleware leaves in the request's
                  \* context as user_id: a "uuid", which the handlers ask for, or
                  \* a "string"
    Threshold     \* circuit_breaker_threshold

ASSUME OwnerAssumption == Owner \in [Domain -> User]
ASSUME IdentityAssumption == IdentityKind \in {"uuid", "string"}
ASSUME ThresholdAssumption == Threshold \in Nat \ {0}

VARIABLES
    row,          \* webhook_configurations
    audit,        \* what webhook_configuration_audit says of each configuration: the
                  \* last record that tells whether it is enabled, or "unreliable"
                  \* for good once a write that leaves no record changed that, the
                  \* INSERT of a record or a DELETE failed, or a row was written while
                  \* a record that says otherwise was outstanding
    task,         \* what each goroutine does next, and the copy it holds
    stale         \* history: goroutines whose copy of a row was read before the
                  \* row's last write by somebody else

vars == <<row, audit, task, stale>>

\* The fields that decide anything.  fails saturates at the threshold, the only
\* value it is compared with; whether an open breaker's timeout has passed is a
\* choice (CanAttemptDelivery); health, averages and totals are statistics that
\* nothing in the program reads back.
Row == [domain : Domain, name : Name, enabled : BOOLEAN, cbEnabled : BOOLEAN,
        breaker : {"closed", "open", "half_open"}, fails : 0..Threshold]

Absent == [domain |-> "absent"]
Gone   == [domain |-> "gone"]

\* The audit record to write after a statement, by what it tells: a record of an
\* update holds the value of enabled that was stored, as one of enabling or disabling
\* does by its name; a record of a test says nothing of it.
Act == {"created", "enabled", "disabled", "deleted", "tested", "none"}

Says(enabled) == IF enabled THEN "enabled" ELSE "disabled"

\* A goroutine that has its copy to store, and one that has not.
Task == [at : {"insert", "write", "deliver"}, config : Config, act : Act, copy : Row]
            \cup [at : {"audit", "delete"}, config : Config, act : Act]
Idle == [at |-> "idle"]

TypeOK ==
    /\ row \in [Config -> Row \cup {Absent, Gone}]
    /\ audit \in [Config -> {"none", "enabled", "disabled", "unreliable"}]
    /\ task \in [Actor -> Task \cup {Idle}]
    /\ stale \subseteq Actor

Init ==
    /\ row = [c \in Config |-> Absent]
    /\ audit = [c \in Config |-> "none"]
    /\ task = [a \in Actor |-> Idle]
    /\ stale = {}

-----------------------------------------------------------------------------
(* domain/entities/webhook_config.go.                                      *)

\* The settings of a request that must not be zero (method, timeout, backoff, rate
\* limits, breaker settings): left out ("zero"), inside the limits or outside.
Params == {"zero", "ok", "bad"}

\* What CreateWebhookConfiguration puts in place of what was left out.
Defaults(p) == IF p = "zero" THEN "ok" ELSE p

\* IsValid: a zero that no default has replaced is outside the limits.  The enums it
\* also checks are only ever set to their constants.
IsValid(p) == p = "ok"

IsActive(r) == r.enabled /\ r.breaker # "open"

RecordSuccess_Decrement(r) ==
    [r EXCEPT !.fails = r.fails - 1,
              !.breaker = IF @ \in {"open", "half_open"} THEN "closed" ELSE @]

RecordSuccess(r) ==
    [r EXCEPT !.fails = 0,
              !.breaker = IF @ \in {"open", "half_open"} THEN "closed" ELSE @]

RecordFailure(r) ==
    LET n == IF r.fails < Threshold THEN r.fails + 1 ELSE Threshold IN
    [r EXCEPT !.fails = n,
              !.breaker = IF r.cbEnabled /\ n >= Threshold THEN "open" ELSE @]

\* The copies with which a delivery may go ahead: none when it may not.  An open
\* breaker lets one through, half open, once its timeout has passed.
CanAttemptDelivery(r) ==
    IF ~r.enabled THEN {}
    ELSE IF r.cbEnabled /\ r.breaker = "open" THEN {[r EXCEPT !.breaker = "half_open"]}
    ELSE {r}

-----------------------------------------------------------------------------
(* gateways/repository/pg/webhook_config.go.                               *)

Live(c) == row[c] \notin {Absent, Gone}

\* GetByID and scanWebhookConfig: the copy has every column of the row.
GetByID(c) == Live(c)
scanWebhookConfig(c) == row[c]

\* GetByDomainIDAndName.
Named(d, n) == {c \in Config : Live(c) /\ row[c].domain = d /\ row[c].name = n}

Unique_Absent(c, r) == TRUE

\* UNIQUE (domain_id, name), for an INSERT or an UPDATE of c.
Unique(c, r) == Named(r.domain, r.name) \subseteq {c}

Holders(c) == {a \in Actor : task[a] # Idle /\ task[a].config = c}

Become(a, t) == task' = [task EXCEPT ![a] = t]

Holding(label, c, act, r) == [at |-> label, config |-> c, act |-> act, copy |-> r]
At(label, c, act) == [at |-> label, config |-> c, act |-> act]

\* a is done, or its statement failed and the error was returned or logged.
Finish(a) == Become(a, Idle) /\ stale' = stale \ {a}

\* The statement that stores r for a: every other copy of the row is now stale.
Store(a, r) ==
    LET c == task[a].config IN
    /\ row' = [row EXCEPT ![c] = r]
    /\ stale' = (stale \cup {b \in Holders(c) : task[b].at \in {"write", "deliver"}}) \ {a}

\* The INSERT, the whole-row UPDATE, and the DELETE, with which the audit records go
\* (ON DELETE CASCADE).
InsertRow(a, c, r) == Unique(c, r) /\ Store(a, r)

UpdateRow(a, c, r) == Live(c) /\ Unique(c, r) /\ Store(a, r)

DeleteRow(c) ==
    /\ Live(c)
    /\ row' = [row EXCEPT ![c] = Gone]
    /\ audit' = [audit EXCEPT ![c] = "none"]

\* The log says v of c from now on, if it is still to be relied on.
Record(c, lost, v) ==
    audit' = [audit EXCEPT ![c] =
                 IF ~Live(c) THEN "none" ELSE IF lost \/ @ = "unreliable" THEN "unreliable" ELSE v]

-----------------------------------------------------------------------------
(* The use case.                                                           *)

\* A configuration starts enabled, its breaker closed.
NewRow(d, n, cb) == [domain |-> d, name |-> n, enabled |-> TRUE, cbEnabled |-> cb,
                     breaker |-> "closed", fails |-> 0]

\* CreateWebhookConfiguration up to its INSERT.  The duplicate check is a read of
\* its own, and an error of that read counts as "no duplicate".
CreateWebhookConfiguration(a, u, d, n, p, cb) ==
    /\ task[a] = Idle
    /\ Owner[d] = u
    /\ \E lookupFailed \in BOOLEAN : lookupFailed \/ Named(d, n) = {}
    /\ IsValid(Defaults(p))
    /\ \E c \in Config :
          /\ row[c] = Absent /\ Holders(c) = {}
          /\ Become(a, Holding("insert", c, "created", NewRow(d, n, cb)))
    /\ UNCHANGED <<row, audit, stale>>

\* CreateFromTemplate passes no breaker settings on, so the breaker is off.  (The
\* template's usage count is a statistic.)
CreateFromTemplate(a, u, d, n) == CreateWebhookConfiguration(a, u, d, n, "zero", FALSE)

\* Its INSERT, which may fail, and its audit record to come.
Create(a, c) ==
    /\ task[a] # Idle /\ task[a].at = "insert" /\ task[a].config = c
    /\ \/ /\ InsertRow(a, c, task[a].copy)
          /\ Become(a, At("audit", c, task[a].act))
       \/ Finish(a) /\ UNCHANGED row
    /\ UNCHANGED audit

\* GetWebhookConfiguration for user u: the row and the owner of its domain.
GetWebhookConfiguration(a, u, c) ==
    /\ task[a] = Idle
    /\ GetByID(c)
    /\ Owner[row[c].domain] = u

\* UpdateWebhookConfiguration: fields that were left out keep their value, enabled is
\* not among those that can be given, and what is stored must be valid.
UpdateWebhookConfiguration(a, u, c) ==
    /\ GetWebhookConfiguration(a, u, c)
    /\ \E n \in Name, cb \in BOOLEAN, p \in Params :
          /\ IsValid(p)
          /\ Become(a, Holding("write", c, Says(row[c].enabled),
                             [scanWebhookConfig(c) EXCEPT !.name = n, !.cbEnabled = cb]))
    /\ UNCHANGED <<row, audit, stale>>

\* Enable and Disable return at once when the copy they read says it is done.
SetEnabled(a, u, c, on, act) ==
    /\ GetWebhookConfiguration(a, u, c)
    /\ row[c].enabled # on
    /\ Become(a, Holding("write", c, act, [scanWebhookConfig(c) EXCEPT !.enabled = on]))
    /\ UNCHANGED <<row, audit, stale>>

EnableWebhookConfiguration(a, u, c)  == SetEnabled(a, u, c, TRUE, "enabled")
DisableWebhookConfiguration(a, u, c) == SetEnabled(a, u, c, FALSE, "disabled")

\* CheckWebhookHealth calls nobody: it inserts a check that says healthy and writes
\* the row back with new health fields.
CheckWebhookHealth(a, u, c) ==
    /\ GetWebhookConfiguration(a, u, c)
    /\ Become(a, Holding("write", c, "none", scanWebhookConfig(c)))
    /\ UNCHANGED <<row, audit, stale>>

\* TestWebhookConfiguration delivers a test payload, whatever comes of it, and
\* leaves only an audit record.
TestWebhookConfiguration(a, u, c) ==
    /\ GetWebhookConfiguration(a, u, c)
    /\ Become(a, At("audit", c, "tested"))
    /\ UNCHANGED <<row, audit, stale>>

\* DeleteWebhookConfiguration writes its audit record first.
DeleteWebhookConfiguration(a, u, c) ==
    /\ GetWebhookConfiguration(a, u, c)
    /\ Become(a, At("audit", c, "deleted"))
    /\ UNCHANGED <<row, audit, stale>>

\* The records of c that others have still to write and that tell whether it is enabled.
Outstanding(a, c) ==
    {task[b].act : b \in {b \in Holders(c) \ {a} : task[b].at = "audit"}} \ {"deleted", "tested"}

\* After the write of t.copy the log may end up telling something else than the row.
Misleads(a, c, t) ==
    \/ t.act = "none" /\ t.copy.enabled # row[c].enabled
    \/ \E x \in Outstanding(a, c) : (x = "disabled") = t.copy.enabled

Update_AuditAnyway(a, c) ==
    LET t == task[a] IN
    /\ t # Idle /\ t.at = "write" /\ t.config = c
    /\ \/ UpdateRow(a, c, t.copy) /\ Record(c, Misleads(a, c, t), audit[c])
       \/ stale' = stale \ {a} /\ UNCHANGED <<row, audit>>
    /\ IF t.act = "none" THEN Become(a, Idle) ELSE Become(a, At("audit", c, t.act))

\* Update, the whole-row UPDATE.  It fails when the row is gone, when the name is
\* taken, or for no fault of the caller's; then no audit record is written.
Update(a, c) ==
    LET t == task[a] IN
    /\ t # Idle /\ t.at = "write" /\ t.config = c
    /\ \/ /\ UpdateRow(a, c, t.copy)
          /\ Record(c, Misleads(a, c, t), audit[c])
          /\ IF t.act = "none" THEN Become(a, Idle) ELSE Become(a, At("audit", c, t.act))
       \/ Finish(a) /\ UNCHANGED <<row, audit>>

\* CreateAudit; an error is only logged.  The record refers to the configuration,
\* so the INSERT fails once that is gone.
CreateAudit(a, c) ==
    LET t == task[a] IN
    /\ t # Idle /\ t.at = "audit" /\ t.config = c
    /\ \/ /\ Live(c)
          /\ Record(c, FALSE, IF t.act \in {"created", "enabled"} THEN "enabled"
                              ELSE IF t.act = "disabled" THEN "disabled" ELSE audit[c])
       \/ Record(c, t.act \notin {"deleted", "tested"}, audit[c])
    /\ Become(a, IF t.act = "deleted" THEN At("delete", c, t.act) ELSE Idle)
    /\ UNCHANGED <<row, stale>>

\* The DELETE that follows the record, and may fail.
Delete(a, c) ==
    /\ task[a] # Idle /\ task[a].at = "delete" /\ task[a].config = c
    /\ \/ DeleteRow(c)
       \/ Record(c, TRUE, audit[c]) /\ UNCHANGED row
    /\ Finish(a)

-----------------------------------------------------------------------------
(* Delivery of an event (internal/webhook).                                *)

\* GetActiveByDomainID.
GetActiveByDomainID(c) == Live(c) /\ row[c].enabled /\ row[c].breaker # "open"

\* LoadWebhookConfigsForEvent, for one of the configurations it returns (those that
\* subscribe to the event).
LoadWebhookConfigsForEvent(a, c) ==
    /\ task[a] = Idle
    /\ GetActiveByDomainID(c)
    /\ IsActive(scanWebhookConfig(c))
    /\ \E r \in CanAttemptDelivery(scanWebhookConfig(c)) : Become(a, Holding("deliver", c, "none", r))
    /\ UNCHANGED <<row, audit, stale>>

\* RecordWebhookResult works on the copy that was loaded and will store all of it.
RecordWebhookResult(a, r, success) ==
    Become(a, [task[a] EXCEPT !.at = "write", !.copy = IF success THEN RecordSuccess(r) ELSE RecordFailure(r)])

\* sendWebhookSyncWithConfig: the endpoint takes the event or does not.
sendWebhookSyncWithConfig(a, r) == \E success \in BOOLEAN : RecordWebhookResult(a, r, success)

\* NotifyIncomingEmail, for one of the configurations that were loaded: the breaker
\* is asked once more.
NotifyIncomingEmail(a, c) ==
    /\ task[a] # Idle /\ task[a].at = "deliver" /\ task[a].config = c
    /\ \E r \in CanAttemptDelivery(task[a].copy) : sendWebhookSyncWithConfig(a, r)
    /\ UNCHANGED <<row, audit, stale>>

-----------------------------------------------------------------------------
(* The handlers.  Each asks the context for a UUID and answers 401 when it  *)
(* finds something else.                                                   *)

Identified == IdentityKind = "uuid"

CreateWebhookConfig(a, u, d, n, p, cb) ==
    Identified /\ CreateWebhookConfiguration(a, u, d, n, p, cb)
UpdateWebhookConfig(a, u, c)  == Identified /\ UpdateWebhookConfiguration(a, u, c)
DeleteWebhookConfig(a, u, c)  == Identified /\ DeleteWebhookConfiguration(a, u, c)
EnableWebhookConfig(a, u, c)  == Identified /\ EnableWebhookConfiguration(a, u, c)
DisableWebhookConfig(a, u, c) == Identified /\ DisableWebhookConfiguration(a, u, c)
TestWebhookConfig(a, u, c)    == Identified /\ TestWebhookConfiguration(a, u, c)
GetWebhookHealth(a, u, c)     == Identified /\ CheckWebhookHealth(a, u, c)
CreateConfigFromTemplate(a, u, d, n) == Identified /\ CreateFromTemplate(a, u, d, n)

Request(a, u) ==
    \/ \E d \in Domain, n \in Name :
          \/ \E p \in Params, cb \in BOOLEAN : CreateWebhookConfig(a, u, d, n, p, cb)
          \/ CreateConfigFromTemplate(a, u, d, n)
    \/ \E c \in Config :
          \/ UpdateWebhookConfig(a, u, c)
          \/ DeleteWebhookConfig(a, u, c)
          \/ EnableWebhookConfig(a, u, c)
          \/ DisableWebhookConfig(a, u, c)
          \/ TestWebhookConfig(a, u, c)
          \/ GetWebhookHealth(a, u, c)

-----------------------------------------------------------------------------
Step(a, c) ==
    \/ Create(a, c)
    \/ Update(a, c)
    \/ CreateAudit(a, c)
    \/ Delete(a, c)
    \/ LoadWebhookConfigsForEvent(a, c)
    \/ NotifyIncomingEmail(a, c)

Next ==
    \E a \in Actor :
       \/ \E u \in User : Request(a, u)
       \/ \E c \in Config : Step(a, c)

Spec == Init /\ [][Next]_vars

\* A goroutine goes on with what it has begun, and events for every configuration keep
\* arriving.
Continue(a, c) ==
    Create(a, c) \/ Update(a, c) \/ CreateAudit(a, c) \/ Delete(a, c) \/ NotifyIncomingEmail(a, c)

FairSpec ==
    /\ Spec
    /\ \A a \in Actor : WF_vars(\E c \in Config : Continue(a, c))
    /\ \A c \in Config : SF_vars(\E a \in Actor : LoadWebhookConfigsForEvent(a, c))

-----------------------------------------------------------------------------
(* Correctness.                                                            *)

\* No two configurations of a domain share a name, although the duplicate check of
\* CreateWebhookConfiguration is a separate read and a rename has none.
NamesUnique ==
    \A c, e \in Config :
       Live(c) /\ Live(e) /\ row[c].domain = row[e].domain /\ row[c].name = row[e].name
          => c = e

\* No goroutine ever probes an endpoint with a half-open breaker: rows with an open
\* breaker are never loaded, so the timeout in CanAttemptDelivery is never consulted.
NeverHalfOpen ==
    /\ \A c \in Config : Live(c) => row[c].breaker # "half_open"
    /\ \A a \in Actor : task[a].at \in {"insert", "write", "deliver"} => task[a].copy.breaker # "half_open"

\* Once a breaker has opened, nothing closes it but the deletion of the
\* configuration or a goroutine that overwrites the row with a copy read before.
OpenIsLeftOnlyByStaleWrite ==
    [][\A c \in Config :
          Live(c) /\ row[c].breaker = "open"
             => \/ row'[c] = Gone
                \/ row'[c].breaker = "open"
                \/ \E a \in stale : task[a].config = c /\ task[a].at = "write"]_vars

\* While no request is between its statement and its record, the audit log tells
\* whether a configuration is enabled, also after updates that were made from a stale
\* copy, unless a delivery or a health check wrote the other value back, a record
\* could not be inserted, a DELETE failed, or two requests whose records contradict
\* each other overlapped.
AuditTellsEnabled ==
    \A c \in Config :
       /\ Live(c) /\ audit[c] # "unreliable"
       /\ \A a \in Holders(c) : task[a].at # "audit" \/ task[a].act \in {"deleted", "tested"}
       => audit[c] = Says(row[c].enabled)

\* What CanAttemptDelivery says of an open breaker ("Check if timeout has expired",
\* "Move to half-open state"): it does not stay open for good while its configuration
\* is enabled and events arrive.
Shut(c) == Live(c) /\ row[c].enabled /\ row[c].cbEnabled /\ row[c].breaker = "open"

BreakerRecovers == \A c \in Config : Shut(c) ~> ~Shut(c)
=============================================================================
