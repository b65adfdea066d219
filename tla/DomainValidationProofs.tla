----------------------- MODULE DomainValidationProofs -----------------------
(***************************************************************************)
(* Proofs about DomainValidation: its type invariant, that only a passed   *)
(* DNS check makes a domain verified, and that an undisturbed domain shown *)
(* as validating has a validation under way.                               *)
(***************************************************************************)
EXTENDS DomainValidation, TLAPS

\* What makes VerifiedHasEvidence inductive: a validator about to write, and an
\* edit about to write back, "verified" have the evidence too.
Evidence ==
    /\ VerifiedHasEvidence
    /\ \A v \in Validator :
          (work[v] # Idle /\ work[v].want = "verified") => Dom(v) \in passed
    /\ \A d \in Domain : snap[d].status = "verified" => d \in passed

\* What makes ValidatingIsBeingDecided inductive: only ValidateDomain and
\* RetryDomainValidation ever set the status to validating.
OpWant ==
    \A v \in Validator : work[v] # Idle =>
        /\ work[v].want = "validating" =>
               \/ work[v].op \in {"ValidateDomain", "RetryDomainValidation"}
               \/ work[v].pc = "dns"
        /\ work[v].op = "handleJobRetry" =>
               work[v].pc \in {"set", "read", "write"} /\ work[v].want = "failed"
        /\ work[v].pc = "record" => work[v].op \in {"ValidateDomain", "RetryDomainValidation"}

\* A validator that is not idle is doing something of type Work.
LEMMA WorkTypes ==
    ASSUME NEW v \in Validator, work \in [Validator -> Work \cup {Idle}], work[v].pc # "idle"
    PROVE  /\ work[v] \in Work
           /\ work[v] # Idle
           /\ work[v].dom \in Domain
<1>1. work[v] # Idle
    BY DEF Idle
<1> QED BY <1>1 DEF Work

\* Goto keeps the type of work.
LEMMA GotoType ==
    ASSUME NEW v \in Validator, work \in [Validator -> Work \cup {Idle}], work[v] \in Work,
           NEW label \in {"idle", "get", "set", "read", "write", "record", "dns"},
           NEW w \in Statuses, MaxRetries \in Nat,
           Goto(v, label, w)
    PROVE  work' \in [Validator -> Work \cup {Idle}]
BY DEF Goto, Become, At, Work, Dom, Idle

\* ValidateFullDomain is sound: what it accepts is proven by the records read.
LEMMA ValidIsProven ==
    ASSUME NEW expected \in Spelling, NEW o \in Outcomes(expected), o.valid
    PROVE  o.proven
<1>1. PICK mx \in Answer, txt \in Answer :
          o = [valid |-> ValidateFullDomain(mx, txt, expected),
               proven |-> Proven(mx, txt, expected)]
    BY DEF Outcomes
<1>2. ValidateMXRecords(mx) /\ ValidateTXTRecord(txt, expected)
    BY <1>1 DEF ValidateFullDomain
<1>3. ~mx.err /\ {ToLower[s] : s \in ExpectedMXServers} \subseteq {ToLower[TrimDot[s]] : s \in mx.found}
    BY <1>2 DEF ValidateMXRecords
<1>4. ~txt.err /\ ToLower[expected] \in {ToLower[s] : s \in txt.found}
    BY <1>2 DEF ValidateTXTRecord
<1>5. Proven(mx, txt, expected)
    BY <1>3, <1>4 DEF Proven
<1>. QED BY <1>1, <1>5

\* What a DNS check leaves: its domain about to be set verified, and proven, or
\* about to be set failed.
LEMMA CheckEffect ==
    ASSUME TypeOK, NEW v \in Validator, DNSCheck(v)
    PROVE  /\ Dom(v) \in Domain
           /\ \/ Goto(v, "set", "verified") /\ passed' = passed \cup {Dom(v)}
              \/ Goto(v, "set", "failed") /\ (passed' = passed \/ passed' = passed \cup {Dom(v)})
           /\ UNCHANGED <<rowVars, queued, snap, disturbed>>
<1>1. Dom(v) \in Domain
    BY WorkTypes DEF DNSCheck, TypeOK, Dom
<1>2. PICK o \in Outcomes(TXTRecord[Dom(v)]) :
          /\ Goto(v, "set", IF o.valid THEN "verified" ELSE "failed")
          /\ passed' = IF o.proven THEN passed \cup {Dom(v)} ELSE passed
    BY <1>1 DEF DNSCheck, CheckOutcomes
<1>3. o.valid => o.proven
    BY <1>1, ValidIsProven, TXTRecordAssumption
<1>. QED BY <1>1, <1>2, <1>3 DEF DNSCheck

\* Every row, job and running operation keeps its type; attempts and the queue
\* stay within their bounds.
THEOREM TypeCorrect == Spec => []TypeOK
<1>1. Init => TypeOK
    BY MaxRetriesAssumption, MaxQueuedAssumption DEF Init, TypeOK, Row, NoRow
<1>2. TypeOK /\ [Next]_vars => TypeOK'
  <2> SUFFICES ASSUME TypeOK, [Next]_vars PROVE TypeOK'
      OBVIOUS
  <2> USE MaxRetriesAssumption, MaxQueuedAssumption
  <2>1. ASSUME NEW d \in Domain, CreateDomain(d) PROVE TypeOK'
      BY <2>1 DEF CreateDomain, TypeOK, Statuses
  <2>2. ASSUME NEW d \in Domain, UpdateDomain_Read(d) PROVE TypeOK'
      BY <2>2 DEF UpdateDomain_Read, Scanned, TypeOK, Exists, Row, rowVars
  <2>3. ASSUME NEW d \in Domain, UpdateDomain_Write(d) PROVE TypeOK'
    <3>1. snap[d] \in Row
        BY <2>3 DEF UpdateDomain_Write, TypeOK
    <3>. QED BY <2>3, <3>1 DEF UpdateDomain_Write, TypeOK, Row, rowVars
  <2>4. ASSUME NEW d \in Domain, DeleteDomain(d) PROVE TypeOK'
      BY <2>4 DEF DeleteDomain, TypeOK
  <2>5. ASSUME NEW d \in Domain, Feed(d) PROVE TypeOK'
      BY <2>5 DEF Feed, TypeOK, rowVars
  <2>6. ASSUME NEW d \in Domain, Elapse(d) PROVE TypeOK'
      BY <2>6 DEF Elapse, TypeOK
  <2>7. ASSUME NEW v \in Validator, NEW d \in Domain, Take(v, d) PROVE TypeOK'
      BY <2>7 DEF Take, Begin, Become, At, TypeOK, Work, Ops, Statuses, rowVars
  <2>8. ASSUME NEW v \in Validator, NEW d \in Domain, Retry(v, d) PROVE TypeOK'
      BY <2>8 DEF Retry, Begin, Become, At, TypeOK, Work, Ops, Statuses, rowVars
  <2>9. ASSUME NEW v \in Validator, Step(v) PROVE TypeOK'
    <3>1. /\ work[v] \in Work /\ work[v].dom \in Domain /\ work[v] # Idle
        BY <2>9, WorkTypes DEF Step, GetByID, UpdateStatus_Set, UpdateStatus_Read,
           UpdateStatus_Write, CreateRecord, DNSCheck, TypeOK
    <3>2. work[v].want \in Statuses /\ work[v].seen \in 0..MaxRetries
        BY <3>1 DEF Work
    <3>3. ASSUME Failure(v) PROVE disturbed' \subseteq Domain
        BY <3>1, <3>3 DEF Failure, TypeOK, Dom
    <3>4. ASSUME ReturnError(v) PROVE work' \in [Validator -> Work \cup {Idle}]
        BY <3>1, <3>4 DEF ReturnError, Become, At, Dom, TypeOK, Work, Ops, Statuses
    <3>5. ASSUME UpdateFails(v) PROVE work' \in [Validator -> Work \cup {Idle}]
        BY <3>1, <3>2, <3>5, GotoType DEF UpdateFails, AfterUpdate, TypeOK
    <3>6. CASE GetByID(v)
        BY <3>1, <3>3, <3>4, <3>6, GotoType DEF GetByID, TypeOK, rowVars, Statuses
    <3>7. CASE UpdateStatus_Set(v)
      <4>1. work' \in [Validator -> Work \cup {Idle}]
          BY <3>1, <3>2, <3>5, <3>7, GotoType DEF UpdateStatus_Set, TypeOK
      <4>. QED BY <3>1, <3>2, <3>3, <3>7, <4>1 DEF UpdateStatus_Set,
              UpdateDomainVerificationStatus, UpdateFails, TypeOK, rowVars, Dom
    <3>8. CASE UpdateStatus_Read(v)
      <4>1. CountUp(attempts[Dom(v)]) \in 0..MaxRetries
          BY <3>1 DEF CountUp, TypeOK, Dom
      <4>2. work' \in [Validator -> Work \cup {Idle}]
          BY <3>1, <3>5, <3>8, <4>1 DEF UpdateStatus_Read, Become, At, Dom, TypeOK, Work
      <4>. QED BY <3>3, <3>8, <4>2 DEF UpdateStatus_Read, UpdateFails, TypeOK, rowVars
    <3>9. CASE UpdateStatus_Write(v)
      <4>1. work' \in [Validator -> Work \cup {Idle}]
          BY <3>1, <3>2, <3>5, <3>9, GotoType DEF UpdateStatus_Write, AfterUpdate, TypeOK
      <4>. QED BY <3>1, <3>2, <3>3, <3>9, <4>1 DEF UpdateStatus_Write,
              UpdateDomainVerificationAttempt, NextAttempt, UpdateFails, TypeOK, rowVars, Dom
    <3>10. CASE CreateRecord(v)
        BY <3>1, <3>2, <3>3, <3>4, <3>10, GotoType DEF CreateRecord, TypeOK, rowVars
    <3>11. CASE DNSCheck(v)
      <4>1. work' \in [Validator -> Work \cup {Idle}]
          BY <3>1, <3>11, GotoType, CheckEffect DEF TypeOK, Statuses
      <4>. QED BY <3>11, <4>1, CheckEffect DEF TypeOK, rowVars
    <3>. QED BY <2>9, <3>6, <3>7, <3>8, <3>9, <3>10, <3>11 DEF Step
  <2>10. CASE Restart
      BY <2>10 DEF Restart, TypeOK, rowVars
  <2>11. CASE UNCHANGED vars
      BY <2>11 DEF vars, rowVars, TypeOK
  <2>. QED BY <2>1, <2>2, <2>3, <2>4, <2>5, <2>6, <2>7, <2>8, <2>9, <2>10, <2>11 DEF Next, Validator
<1>. QED BY <1>1, <1>2, PTL DEF Spec

-----------------------------------------------------------------------------

\* A validator at a statement is not idle.
LEMMA StepTypes ==
    ASSUME TypeOK, NEW v \in Validator, Step(v)
    PROVE  /\ work[v] \in Work
           /\ work[v] # Idle
           /\ Dom(v) \in Domain
BY WorkTypes DEF Step, GetByID, UpdateStatus_Set, UpdateStatus_Read, UpdateStatus_Write,
   CreateRecord, DNSCheck, TypeOK, Dom

\* A step of v leaves the other validators alone.
LEMMA StepFrame ==
    ASSUME TypeOK, NEW v \in Validator, Step(v), NEW u \in Validator, u # v
    PROVE  work'[u] = work[u]
BY DEF Step, GetByID, UpdateStatus_Set, UpdateStatus_Read, UpdateStatus_Write, UpdateFails,
   CreateRecord, DNSCheck, ReturnError, Goto, Become, TypeOK

\* The fields of At; it is Idle for no statement.
LEMMA AtFields ==
    ASSUME NEW label, NEW o, NEW d, NEW w, NEW n
    PROVE  /\ At(label, o, d, w, n).pc = label
           /\ At(label, o, d, w, n).op = o
           /\ At(label, o, d, w, n).dom = d
           /\ At(label, o, d, w, n).want = w
           /\ label # "idle" => At(label, o, d, w, n) # Idle
BY DEF At, Idle

\* What Goto leaves v doing.
LEMMA GotoEffect ==
    ASSUME TypeOK, NEW v \in Validator, NEW label, NEW w, Goto(v, label, w)
    PROVE  \/ label = "idle" /\ work'[v] = Idle
           \/ /\ label # "idle"
              /\ work'[v] # Idle
              /\ work'[v].pc = label
              /\ work'[v].op = work[v].op
              /\ work'[v].dom = work[v].dom
              /\ work'[v].want = w
BY AtFields DEF Goto, Become, Dom, TypeOK

\* What a step of v leaves v doing: nothing, or something on the same domain.
LEMMA StepDomain ==
    ASSUME TypeOK, NEW v \in Validator, Step(v)
    PROVE  \/ work'[v] = Idle
           \/ /\ work'[v] # Idle
              /\ work'[v].dom = work[v].dom
              /\ \/ work'[v].want = work[v].want
                 \/ work'[v].want \in {"validating", "failed"}
                 \/ work'[v].want = "verified" /\ Dom(v) \in passed'
<1>1. CASE GetByID(v)
    BY <1>1, GotoEffect, AtFields DEF GetByID, ReturnError, Become, Dom, TypeOK
<1>2. CASE UpdateStatus_Set(v)
    BY <1>2, GotoEffect DEF UpdateStatus_Set, UpdateFails, AfterUpdate
<1>3. CASE UpdateStatus_Read(v)
    BY <1>3, GotoEffect, AtFields DEF UpdateStatus_Read, UpdateFails, AfterUpdate, Become, Dom, TypeOK
<1>4. CASE UpdateStatus_Write(v)
    BY <1>4, GotoEffect DEF UpdateStatus_Write, UpdateFails, AfterUpdate
<1>5. CASE CreateRecord(v)
    BY <1>5, GotoEffect, AtFields DEF CreateRecord, ReturnError, Become, Dom, TypeOK
<1>6. CASE DNSCheck(v)
  <2>1. Goto(v, "set", "failed") \/ (Goto(v, "set", "verified") /\ Dom(v) \in passed')
      BY <1>6, CheckEffect
  <2>. QED BY <2>1, GotoEffect
<1> QED BY <1>1, <1>2, <1>3, <1>4, <1>5, <1>6 DEF Step

\* What a step of v does to the rows' statuses: nothing, or it sets its own.
LEMMA StepStatus ==
    ASSUME TypeOK, NEW v \in Validator, Step(v)
    PROVE  /\ passed \subseteq passed'
           /\ snap' = snap
           /\ \A d \in Domain : \/ status'[d] = status[d]
                                \/ d = Dom(v) /\ status'[d] = work[v].want
BY StepTypes, CheckEffect DEF Step, GetByID, UpdateStatus_Set, UpdateStatus_Read,
   UpdateStatus_Write, UpdateDomainVerificationStatus, UpdateFails, CreateRecord, rowVars, TypeOK

\* A domain is marked verified only if one of its DNS checks has passed: the
\* property VerifiedHasEvidence for every number of domains, workers and retries.
THEOREM OnlyEvidenceVerifies == Spec => []VerifiedHasEvidence
<1>1. Init => Evidence
    BY DEF Init, Evidence, VerifiedHasEvidence, NoRow
<1>2. TypeOK /\ Evidence /\ [Next]_vars => Evidence'
  <2> SUFFICES ASSUME TypeOK, Evidence, [Next]_vars PROVE Evidence'
      OBVIOUS
  <2>1. ASSUME NEW d \in Domain,
               \/ CreateDomain(d) \/ UpdateDomain_Read(d) \/ UpdateDomain_Write(d)
               \/ DeleteDomain(d) \/ Feed(d) \/ Elapse(d)
        PROVE  Evidence'
    <3>1. work' = work /\ passed' = passed
        BY <2>1 DEF CreateDomain, UpdateDomain_Read, UpdateDomain_Write, DeleteDomain, Feed, Elapse
    <3>2. VerifiedHasEvidence'
        BY <2>1, <3>1 DEF CreateDomain, UpdateDomain_Read, UpdateDomain_Write, DeleteDomain,
           Feed, Elapse, rowVars, TypeOK, Evidence, VerifiedHasEvidence
    <3>3. \A e \in Domain : snap'[e].status = "verified" => e \in passed'
        BY <2>1, <3>1 DEF CreateDomain, UpdateDomain_Read, UpdateDomain_Write, DeleteDomain,
           Feed, Elapse, Scanned, TypeOK, NoRow, Evidence, VerifiedHasEvidence
    <3>. QED BY <3>1, <3>2, <3>3 DEF Evidence, Dom
  <2>2. ASSUME NEW v \in Validator, NEW d \in Domain, Take(v, d) \/ Retry(v, d)
        PROVE  Evidence'
      BY <2>2 DEF Take, Retry, Begin, Become, At, rowVars, TypeOK, Evidence, VerifiedHasEvidence, Dom
  <2>3. ASSUME NEW v \in Validator, Step(v) PROVE Evidence'
    <3>1. VerifiedHasEvidence'
        BY <2>3, StepStatus, StepTypes DEF Evidence, VerifiedHasEvidence
    <3>2. \A u \in Validator :
             (work'[u] # Idle /\ work'[u].want = "verified") => work'[u].dom \in passed'
      <4>1. ASSUME NEW u \in Validator, u # v, work'[u] # Idle, work'[u].want = "verified"
            PROVE  work'[u].dom \in passed'
          BY <2>3, <4>1, StepFrame, StepStatus DEF Evidence, Dom
      <4>2. ASSUME work'[v] # Idle, work'[v].want = "verified"
            PROVE  work'[v].dom \in passed'
          BY <2>3, <4>2, StepDomain, StepTypes, StepStatus DEF Evidence, Dom
      <4>. QED BY <4>1, <4>2
    <3>. QED BY <2>3, <3>1, <3>2, StepStatus DEF Evidence, Dom
  <2>4. CASE Restart
      BY <2>4 DEF Restart, rowVars, Evidence, VerifiedHasEvidence, Dom
  <2>5. CASE UNCHANGED vars
      BY <2>5 DEF vars, rowVars, Evidence, VerifiedHasEvidence, Dom
  <2>. QED BY <2>1, <2>2, <2>3, <2>4, <2>5 DEF Next, Validator
<1>3. Evidence => VerifiedHasEvidence
    BY DEF Evidence
<1>. QED BY <1>1, <1>2, <1>3, TypeCorrect, PTL DEF Spec

-----------------------------------------------------------------------------

Decided == OpWant /\ ValidatingIsBeingDecided

\* A step keeps OpWant for the validator that takes it.
LEMMA StepOpWant ==
    ASSUME TypeOK, OpWant, NEW v \in Validator, Step(v)
    PROVE  OpWant'
<1> DEFINE P(r) == r # Idle =>
        /\ r.want = "validating" =>
               \/ r.op \in {"ValidateDomain", "RetryDomainValidation"}
               \/ r.pc = "dns"
        /\ r.op = "handleJobRetry" => r.pc \in {"set", "read", "write"} /\ r.want = "failed"
        /\ r.pc = "record" => r.op \in {"ValidateDomain", "RetryDomainValidation"}
<1>1. P(work[v]) /\ work[v] # Idle /\ work[v] \in Work
    BY StepTypes DEF OpWant
<1>2. P(work'[v])
  <2>1. CASE GetByID(v)
      BY <1>1, <2>1, GotoEffect, AtFields DEF GetByID, ReturnError, Become, TypeOK, Work, Ops
  <2>2. CASE UpdateStatus_Set(v)
      BY <1>1, <2>2, GotoEffect DEF UpdateStatus_Set, UpdateFails, AfterUpdate
  <2>3. CASE UpdateStatus_Read(v)
      BY <1>1, <2>3, GotoEffect, AtFields DEF UpdateStatus_Read, UpdateFails, AfterUpdate, Become, TypeOK
  <2>4. CASE UpdateStatus_Write(v)
    <3>1. work[v].want = "validating" => work[v].op \in {"ValidateDomain", "RetryDomainValidation"}
        BY <1>1, <2>4 DEF UpdateStatus_Write
    <3>2. \E err \in {"nil", "error"} : Goto(v, AfterUpdate(v, err), work[v].want)
        BY <2>4 DEF UpdateStatus_Write, UpdateFails
    <3>3. PICK err \in {"nil", "error"} : Goto(v, AfterUpdate(v, err), work[v].want)
        BY <3>2
    <3>. QED BY <1>1, <3>1, <3>3, GotoEffect DEF AfterUpdate
  <2>5. CASE CreateRecord(v)
      BY <1>1, <2>5, GotoEffect, AtFields DEF CreateRecord, ReturnError, Become, TypeOK
  <2>6. CASE DNSCheck(v)
    <3>1. work[v].pc = "dns"
        BY <2>6 DEF DNSCheck
    <3>. QED BY <1>1, <2>6, <3>1, GotoEffect, CheckEffect
  <2>. QED BY <2>1, <2>2, <2>3, <2>4, <2>5, <2>6 DEF Step
<1>3. \A u \in Validator : u # v => P(work'[u])
    BY StepFrame DEF OpWant
<1>. QED BY <1>2, <1>3 DEF OpWant

\* A step either keeps v's domain on its way to a decision, or disturbs it, or
\* leaves it in a status other than validating.
LEMMA StepDecides ==
    ASSUME TypeOK, OpWant, NEW v \in Validator, Step(v),
           Validating(v) \/ status'[Dom(v)] # status[Dom(v)],
           status'[Dom(v)] = "validating", Dom(v) \notin disturbed'
    PROVE  Validating(v)' /\ work'[v].dom = work[v].dom
<1>1. /\ work[v] # Idle /\ work[v] \in Work /\ Dom(v) \in Domain
    BY StepTypes
<1>2. ~Failure(v)
    BY DEF Failure
<1>3. CASE GetByID(v)
    BY <1>2, <1>3 DEF GetByID, Validating, rowVars
<1>4. CASE UpdateStatus_Set(v)
  <2>1. /\ status' = [status EXCEPT ![Dom(v)] = IF Exists(Dom(v)) THEN work[v].want ELSE @]
        /\ Goto(v, "read", work[v].want)
      BY <1>2, <1>4 DEF UpdateStatus_Set, UpdateDomainVerificationStatus, UpdateFails
  <2>2. status'[Dom(v)] = IF Exists(Dom(v)) THEN work[v].want ELSE status[Dom(v)]
      BY <1>1, <2>1 DEF TypeOK
  <2>3. Exists(Dom(v))
      BY <2>2 DEF Exists, Statuses
  <2>4. work[v].want = "validating"
      BY <2>2, <2>3
  <2>. QED BY <1>1, <1>4, <2>1, <2>4, GotoEffect DEF Validating, OpWant, UpdateStatus_Set
<1>5. CASE UpdateStatus_Read(v)
    BY <1>2, <1>5, AtFields DEF UpdateStatus_Read, UpdateFails, Validating, Become, Dom, TypeOK, rowVars
<1>6. CASE UpdateStatus_Write(v)
    BY <1>2, <1>6, GotoEffect DEF UpdateStatus_Write, UpdateFails, AfterUpdate, Validating
<1>7. CASE CreateRecord(v)
    BY <1>2, <1>7, GotoEffect DEF CreateRecord, Validating, rowVars
<1>8. CASE DNSCheck(v)
    BY <1>8, GotoEffect, CheckEffect DEF DNSCheck, Validating, rowVars
<1>. QED BY <1>3, <1>4, <1>5, <1>6, <1>7, <1>8 DEF Step

\* An undisturbed domain in status validating always has a validation under way:
\* ValidatingIsBeingDecided for every number of domains, workers and callers.
THEOREM NothingStuckUnlessDisturbed == Spec => []ValidatingIsBeingDecided
<1>1. Init => Decided
    BY DEF Init, Decided, OpWant, ValidatingIsBeingDecided
<1>2. TypeOK /\ Decided /\ [Next]_vars => Decided'
  <2> SUFFICES ASSUME TypeOK, Decided, [Next]_vars PROVE Decided'
      OBVIOUS
  <2>1. ASSUME NEW d \in Domain,
               \/ CreateDomain(d) \/ UpdateDomain_Read(d) \/ UpdateDomain_Write(d)
               \/ DeleteDomain(d) \/ Feed(d) \/ Elapse(d)
        PROVE  Decided'
    <3>1. work' = work /\ disturbed \subseteq disturbed'
        BY <2>1 DEF CreateDomain, UpdateDomain_Read, UpdateDomain_Write, DeleteDomain, Feed, Elapse
    <3>2. \A e \in Domain : (status'[e] = "validating" /\ e \notin disturbed')
                                => status[e] = "validating"
        BY <2>1 DEF CreateDomain, UpdateDomain_Read, UpdateDomain_Write, DeleteDomain,
           Feed, Elapse, rowVars, TypeOK
    <3>. QED BY <3>1, <3>2 DEF Decided, OpWant, ValidatingIsBeingDecided, Validating, Dom
  <2>2. ASSUME NEW v \in Validator, NEW d \in Domain, Take(v, d) \/ Retry(v, d)
        PROVE  Decided'
    <3>1. /\ work[v] = Idle
          /\ status' = status /\ disturbed' = disturbed
          /\ \A u \in Validator : u # v => work'[u] = work[u]
        BY <2>2 DEF Take, Retry, Begin, Become, rowVars, TypeOK
    <3>2. \/ /\ work'[v].op = "ValidateDomain" /\ work'[v].pc = "get"
          \/ /\ work'[v].op \in {"RetryDomainValidation", "RetryValidation"}
             /\ work'[v].pc = "set" /\ work'[v].want = "pending"
        BY <2>2, AtFields DEF Take, Retry, Begin, Become, TypeOK
    <3>3. OpWant'
        BY <3>1, <3>2 DEF Decided, OpWant
    <3>4. ValidatingIsBeingDecided'
        BY <3>1 DEF Decided, ValidatingIsBeingDecided, Validating, Dom
    <3>. QED BY <3>3, <3>4 DEF Decided
  <2>3. ASSUME NEW v \in Validator, Step(v) PROVE Decided'
    <3>1. OpWant'
        BY <2>3, StepOpWant DEF Decided
    <3>2. disturbed \subseteq disturbed'
        BY <2>3 DEF Step, GetByID, UpdateStatus_Set, UpdateStatus_Read, UpdateStatus_Write,
           UpdateFails, CreateRecord, DNSCheck, Failure
    <3>3. ASSUME NEW d \in Domain, status'[d] = "validating", d \notin disturbed'
          PROVE  \E u \in Validator : Validating(u)' /\ Dom(u)' = d
      <4>1. CASE status[d] # "validating"
        <5>1. d = Dom(v) /\ status'[Dom(v)] # status[Dom(v)]
            BY <2>3, <3>3, <4>1, StepStatus
        <5>2. Validating(v)' /\ work'[v].dom = work[v].dom
            BY <2>3, <3>3, <5>1, StepDecides DEF Decided
        <5>. QED BY <5>1, <5>2 DEF Dom
      <4>2. CASE status[d] = "validating"
        <5>1. PICK u \in Validator : Validating(u) /\ Dom(u) = d
            BY <3>2, <3>3, <4>2 DEF Decided, ValidatingIsBeingDecided
        <5>2. CASE u = v
          <6>1. Validating(v)' /\ work'[v].dom = work[v].dom
              BY <2>3, <3>3, <5>1, <5>2, StepDecides DEF Decided
          <6>. QED BY <5>1, <5>2, <6>1 DEF Dom
        <5>3. CASE u # v
          <6>1. work'[u] = work[u]
              BY <2>3, <5>3, StepFrame
          <6>. QED BY <5>1, <6>1 DEF Dom, Validating
        <5>. QED BY <5>2, <5>3
      <4>. QED BY <4>1, <4>2
    <3>. QED BY <3>1, <3>3 DEF Decided, ValidatingIsBeingDecided
  <2>4. CASE Restart
    <3>1. OpWant'
        BY <2>4 DEF Restart, OpWant
    <3>2. ValidatingIsBeingDecided'
        BY <2>4 DEF Restart, rowVars, Decided, ValidatingIsBeingDecided, Validating
    <3>. QED BY <3>1, <3>2 DEF Decided
  <2>5. CASE UNCHANGED vars
      BY <2>5 DEF vars, rowVars, Decided, OpWant, ValidatingIsBeingDecided, Validating, Dom
  <2>. QED BY <2>1, <2>2, <2>3, <2>4, <2>5 DEF Next, Validator
<1>3. Decided => ValidatingIsBeingDecided
    BY DEF Decided
<1>. QED BY <1>1, <1>2, <1>3, TypeCorrect, PTL DEF Spec
=============================================================================
