------------------------- MODULE OutboundMailProofs -------------------------
(***************************************************************************)
(* Proofs about OutboundMail: its type invariant, that a sent row was      *)
(* taken by the relay, that without a failure or an overlap there are no   *)
(* duplicates and no row is left untrue, and that retries wait.            *)
(***************************************************************************)
EXTENDS OutboundMail, TLAPS

\* What makes TypeOK inductive: a message about to be sent can still count one
\* more failure.
Headroom ==
    \A s \in Sender :
        (task[s] # Idle /\ task[s].at = "send") => task[s].copy.retries < RetryCap

\* What makes SentWasAccepted inductive: a goroutine about to write "sent" has
\* had the relay's word for it.
Evidence ==
    /\ SentWasAccepted
    /\ \A s \in Sender :
          (task[s] # Idle /\ task[s].at = "update" /\ task[s].copy.status = "sent")
              => accepted[task[s].email] > 0

\* What makes NoDuplicates and SettledRowIsTrue inductive: an undisturbed row has
\* at most one goroutine at work on it, and what that goroutine is about to do
\* agrees with what the relay has.
Works(s, e) == task[s] # Idle /\ task[s].email = e

Settled(e) ==
    /\ status[e] \in {"absent", "sent", "failed"}
    /\ status[e] = "sent" <=> accepted[e] = 1

OnTrack(s, e) ==
    /\ task[s].at = "create" => status[e] = "absent"
    /\ task[s].at = "get" => Settled(e)
    /\ task[s].at = "send" => status[e] # "absent" /\ accepted[e] = 0
    /\ task[s].at = "update" =>
           /\ status[e] # "absent"
           /\ task[s].copy.status \in {"sent", "failed"}
           /\ task[s].copy.status = "sent" <=> accepted[e] = 1

TrueRow(e) ==
    /\ accepted[e] \in {0, 1}
    /\ status[e] = "absent" => accepted[e] = 0
    /\ \A s, t \in Sender : Works(s, e) /\ Works(t, e) => s = t
    /\ (\A s \in Sender : ~Works(s, e)) => Settled(e)
    /\ \A s \in Sender : Works(s, e) => OnTrack(s, e)

Truth == \A e \in Email : e \notin disturbed => TrueRow(e)

-----------------------------------------------------------------------------

\* The cap on the retry count is a positive number.
LEMMA RetryCapType == RetryCap \in Nat /\ RetryCap > 0 /\ MaxRetries <= RetryCap
BY MaxRetriesAssumption DEF RetryCap

\* The fields of At; it is Idle at no step.
LEMMA AtFields ==
    ASSUME NEW label, NEW e, NEW c
    PROVE  /\ At(label, e, c).at = label
           /\ At(label, e, c).email = e
           /\ At(label, e, c).copy = c
           /\ label # "idle" => At(label, e, c) # Idle
BY DEF At, Idle

\* A busy goroutine has an email and a copy of a row.
LEMMA TaskTypes ==
    ASSUME TypeOK, NEW s \in Sender, task[s].at # "idle" \/ task[s] # Idle
    PROVE  /\ task[s] \in Task /\ task[s] # Idle
           /\ task[s].email \in Email /\ task[s].copy \in Copy
           /\ task[s].copy.status \in {"pending", "sent", "failed"}
           /\ task[s].copy.retries \in 0..RetryCap
           /\ task[s].copy.retryAt \in {"null", "later", "due"}
<1>1. task[s] \in Task /\ task[s] # Idle
    BY DEF TypeOK, Idle
<1>. QED BY <1>1 DEF Task, Copy

\* A step is taken by a busy goroutine.
LEMMA StepTypes ==
    ASSUME TypeOK, NEW s \in Sender, Step(s)
    PROVE  task[s] # Idle /\ task[s].email \in Email
BY TaskTypes DEF Step, CreateSentEmail, GetSentEmail, Send, UpdateSentEmail

\* Rows, tasks and batches keep their types, and the retry count never exceeds
\* its limit, however many goroutines resend.
THEOREM TypeCorrect == Spec => []TypeOK
<1> DEFINE Inv == TypeOK /\ Headroom
<1>1. Init => Inv
    BY RetryCapType DEF Init, TypeOK, Headroom
<1>2. Inv /\ [Next]_vars => Inv'
  <2> SUFFICES ASSUME TypeOK, Headroom, [Next]_vars PROVE Inv'
      OBVIOUS
  <2> USE RetryCapType, MaxRetriesAssumption
  <2>0. New \in Copy
      BY DEF New, Copy
  <2>1. ASSUME NEW s \in Sender, NEW e \in Email, NEW label \in {"create", "get"},
               Begin(s, label, e), batch' \in [Sender -> SUBSET Email]
        PROVE  Inv'
    <3>1. At(label, e, New) \in Task
        BY <2>0 DEF At, Task
    <3>2. task' = [task EXCEPT ![s] = At(label, e, New)]
        BY <2>1 DEF Begin, Become
    <3>3. TypeOK'
        BY <2>1, <3>1, <3>2 DEF Begin, TypeOK, rowVars
    <3>4. Headroom'
        BY <3>2, AtFields DEF Headroom, TypeOK
    <3>. QED BY <3>3, <3>4
  <2>2. ASSUME NEW s \in Sender, NEW e \in Email,
               SendEmail(s, e) \/ ResendEmail(s, e) \/ ProcessNext(s, e)
        PROVE  Inv'
    <3>1. batch' \in [Sender -> SUBSET Email]
        BY <2>2 DEF SendEmail, ResendEmail, ProcessNext, TypeOK
    <3>. QED BY <2>1, <2>2, <3>1 DEF SendEmail, ResendEmail, ProcessNext
  <2>3. ASSUME NEW s \in Sender, ProcessRetryQueue(s) PROVE Inv'
      BY <2>3 DEF ProcessRetryQueue, TypeOK, Headroom, rowVars
  <2>4. ASSUME NEW s \in Sender, CreateSentEmail(s) PROVE Inv'
    <3>1. task[s].email \in Email
        BY <2>4, TaskTypes DEF CreateSentEmail
    <3>2. At("send", task[s].email, New) \in Task
        BY <2>0, <3>1 DEF At, Task
    <3>3. TypeOK'
        BY <2>4, <3>1, <3>2 DEF CreateSentEmail, Become, Disturb, TypeOK, rowVars
    <3>4. Headroom'
        BY <2>4, AtFields DEF CreateSentEmail, Become, Headroom, TypeOK, New
    <3>. QED BY <3>3, <3>4
  <2>5. ASSUME NEW s \in Sender, GetSentEmail(s) PROVE Inv'
    <3> DEFINE c == RowOf(task[s].email)
               r == [status |-> "pending", retries |-> c.retries, retryAt |-> c.retryAt]
    <3>1. task[s].email \in Email
        BY <2>5, TaskTypes DEF GetSentEmail
    <3>2. r \in Copy /\ (CanRetry(c) => r.retries < RetryCap)
        BY <3>1 DEF RowOf, Copy, TypeOK, CanRetry
    <3>3. At("send", task[s].email, r) \in Task
        BY <3>1, <3>2 DEF At, Task
    <3>4. \/ CanRetry(c) /\ task' = [task EXCEPT ![s] = At("send", task[s].email, r)]
          \/ task' = [task EXCEPT ![s] = Idle]
        BY <2>5 DEF GetSentEmail, Become
    <3>5. TypeOK'
        BY <2>5, <3>1, <3>3, <3>4 DEF GetSentEmail, Disturb, TypeOK, rowVars
    <3>6. Headroom'
        BY <3>2, <3>4, AtFields DEF Headroom, TypeOK
    <3>. QED BY <3>5, <3>6
  <2>6. ASSUME NEW s \in Sender, Send(s) PROVE Inv'
    <3> DEFINE e == task[s].email
               c == task[s].copy
    <3>1. /\ e \in Email /\ c.retries \in 0..RetryCap /\ c.retries < RetryCap
          /\ c.retryAt \in {"null", "later", "due"}
        BY <2>6, TaskTypes DEF Send, Headroom
    <3>2. MarkAsSent(c) \in Copy /\ MarkAsFailed(c) \in Copy
        BY <3>1 DEF MarkAsSent, MarkAsFailed, Copy
    <3>3. At("update", e, MarkAsSent(c)) \in Task /\ At("update", e, MarkAsFailed(c)) \in Task
        BY <3>1, <3>2 DEF At, Task
    <3>4. \/ task' = [task EXCEPT ![s] = At("update", e, MarkAsSent(c))]
          \/ task' = [task EXCEPT ![s] = At("update", e, MarkAsFailed(c))]
        BY <2>6 DEF Send, Become
    <3>5. accepted' \in [Email -> 0..2]
        BY <2>6, <3>1 DEF Send, Accept, TypeOK
    <3>6. TypeOK'
        BY <2>6, <3>1, <3>3, <3>4, <3>5 DEF Send, Disturb, TypeOK, rowVars
    <3>7. Headroom'
        BY <3>4, AtFields DEF Headroom, TypeOK
    <3>. QED BY <3>6, <3>7
  <2>7. ASSUME NEW s \in Sender, UpdateSentEmail(s) PROVE Inv'
    <3>1. /\ task[s].email \in Email
          /\ task[s].copy.status \in {"pending", "sent", "failed"}
          /\ task[s].copy.retries \in 0..RetryCap
          /\ task[s].copy.retryAt \in {"null", "later", "due"}
        BY <2>7, TaskTypes DEF UpdateSentEmail
    <3>. QED BY <2>7, <3>1 DEF UpdateSentEmail, Become, Disturb, TypeOK, Headroom, rowVars
  <2>8. ASSUME NEW s \in Sender, Die(s) PROVE Inv'
      BY <2>8, TaskTypes DEF Die, Become, Disturb, TypeOK, Headroom, rowVars
  <2>9. ASSUME NEW e \in Email, Elapse(e) PROVE Inv'
      BY <2>9 DEF Elapse, TypeOK, Headroom
  <2>10. CASE UNCHANGED vars
      BY <2>10 DEF vars, rowVars, TypeOK, Headroom
  <2>. QED
      BY <2>2, <2>3, <2>4, <2>5, <2>6, <2>7, <2>8, <2>9, <2>10 DEF Next, Step
<1>3. Inv => TypeOK
    OBVIOUS
<1>. QED BY <1>1, <1>2, <1>3, PTL DEF Spec

-----------------------------------------------------------------------------

\* A step leaves the other goroutines' tasks alone and never takes a message
\* back from the relay.
LEMMA StepFrame ==
    ASSUME TypeOK, NEW s \in Sender, Step(s)
    PROVE  /\ \A t \in Sender : t # s => task'[t] = task[t]
           /\ \A e \in Email : accepted'[e] \in 0..2 /\ accepted'[e] >= accepted[e]
           /\ \A e \in Email : e # task[s].email =>
                  status'[e] = status[e] /\ accepted'[e] = accepted[e]
           /\ disturbed' = disturbed \/ disturbed' = disturbed \cup {task[s].email}
<1>1. task[s].email \in Email
    BY StepTypes
<1>2. CASE CreateSentEmail(s)
    BY <1>1, <1>2 DEF CreateSentEmail, Become, Disturb, TypeOK, rowVars
<1>3. CASE GetSentEmail(s)
    BY <1>1, <1>3 DEF GetSentEmail, Become, Disturb, TypeOK, rowVars
<1>4. CASE Send(s)
    BY <1>1, <1>4 DEF Send, Accept, Become, Disturb, TypeOK, rowVars
<1>5. CASE UpdateSentEmail(s)
    BY <1>1, <1>5 DEF UpdateSentEmail, Become, Disturb, TypeOK, rowVars
<1>. QED BY <1>2, <1>3, <1>4, <1>5 DEF Step

\* Beginning an operation gives s a task and touches nothing but the marks.
LEMMA BeginEffect ==
    ASSUME TypeOK, NEW s \in Sender, NEW e \in Email,
           SendEmail(s, e) \/ ResendEmail(s, e) \/ ProcessNext(s, e)
    PROVE  /\ task[s] = Idle /\ task'[s] # Idle
           /\ task'[s].email = e /\ task'[s].copy = New
           /\ \A t \in Sender : t # s => task'[t] = task[t]
           /\ status' = status /\ accepted' = accepted
           /\ disturbed \subseteq disturbed'
           /\ Busy(e) # {} => e \in disturbed'
           /\ \/ task'[s].at = "create" /\ status[e] = "absent"
              \/ task'[s].at = "get" /\ (SendEmail(s, e) \/ ResendEmail(s, e) => status[e] # "absent")
<1>1. \/ SendEmail(s, e) /\ Begin(s, "create", e)
      \/ ~SendEmail(s, e) /\ Begin(s, "get", e)
    BY DEF SendEmail, ResendEmail, ProcessNext
<1>2. \/ SendEmail(s, e) /\ task' = [task EXCEPT ![s] = At("create", e, New)]
      \/ ~SendEmail(s, e) /\ task' = [task EXCEPT ![s] = At("get", e, New)]
    BY <1>1 DEF Begin, Become
<1>3. /\ task[s] = Idle /\ status' = status /\ accepted' = accepted
      /\ disturbed' = IF Busy(e) = {} THEN disturbed ELSE disturbed \cup {e}
    BY <1>1 DEF Begin, rowVars
<1>. QED BY <1>2, <1>3, AtFields DEF SendEmail, ResendEmail, TypeOK

\* A row that says "sent" was taken by the relay at least once: SentWasAccepted
\* for every number of emails, goroutines and retries.
THEOREM SentMeansAccepted == Spec => []SentWasAccepted
<1>1. Init => Evidence
    BY DEF Init, Evidence, SentWasAccepted
<1>2. TypeOK /\ Evidence /\ [Next]_vars => Evidence'
  <2> SUFFICES ASSUME TypeOK, Evidence, [Next]_vars PROVE Evidence'
      OBVIOUS
  <2>1. ASSUME NEW s \in Sender, NEW e \in Email,
               SendEmail(s, e) \/ ResendEmail(s, e) \/ ProcessNext(s, e)
        PROVE  Evidence'
      BY <2>1, BeginEffect DEF Evidence, SentWasAccepted
  <2>2. ASSUME NEW s \in Sender, Step(s) PROVE Evidence'
    <3>1. task[s] # Idle /\ task[s].email \in Email
        BY <2>2, StepTypes
    <3>2. ASSUME NEW e \in Email, status'[e] = "sent" PROVE accepted'[e] > 0
      <4>1. CASE status[e] = "sent"
          BY <2>2, <4>1, StepFrame DEF Evidence, SentWasAccepted, TypeOK
      <4>2. CASE status[e] # "sent"
        <5>1. UpdateSentEmail(s) /\ e = task[s].email /\ task[s].copy.status = "sent"
            BY <2>2, <3>1, <3>2, <4>2 DEF Step, CreateSentEmail, GetSentEmail, Send,
               UpdateSentEmail, rowVars, TypeOK
        <5>. QED BY <3>1, <5>1 DEF UpdateSentEmail, Evidence
      <4>. QED BY <4>1, <4>2
    <3>3. ASSUME NEW t \in Sender, task'[t] # Idle, task'[t].at = "update",
                 task'[t].copy.status = "sent"
          PROVE  accepted'[task'[t].email] > 0
      <4>1. CASE t # s
        <5>1. task'[t] = task[t] /\ task[t].email \in Email
            BY <2>2, <3>3, <4>1, StepFrame, TaskTypes
        <5>. QED BY <2>2, <3>3, <5>1, StepFrame DEF Evidence, TypeOK
      <4>2. CASE t = s
        <5>1. Send(s)
            BY <2>2, <3>3, <4>2, AtFields DEF Step, CreateSentEmail, GetSentEmail,
               UpdateSentEmail, Become, TypeOK
        <5>2. task' # [task EXCEPT ![s] = At("update", task[s].email, MarkAsFailed(task[s].copy))]
            BY <3>3, <4>2, AtFields DEF MarkAsFailed, TypeOK
        <5>3. accepted' = [accepted EXCEPT ![task[s].email] = IF @ < 2 THEN @ + 1 ELSE 2]
            BY <5>1, <5>2 DEF Send, Become, Accept
        <5>4. task'[s].email = task[s].email
            BY <5>1, AtFields DEF Send, Become, TypeOK
        <5>. QED BY <3>1, <4>2, <5>3, <5>4 DEF TypeOK
      <4>. QED BY <4>1, <4>2
    <3>. QED BY <3>2, <3>3 DEF Evidence, SentWasAccepted
  <2>3. ASSUME NEW s \in Sender, ProcessRetryQueue(s) PROVE Evidence'
      BY <2>3 DEF ProcessRetryQueue, Evidence, SentWasAccepted, rowVars
  <2>4. ASSUME NEW s \in Sender, Die(s) PROVE Evidence'
      BY <2>4 DEF Die, Become, Evidence, SentWasAccepted, rowVars, TypeOK
  <2>5. ASSUME NEW e \in Email, Elapse(e) PROVE Evidence'
      BY <2>5 DEF Elapse, Evidence, SentWasAccepted
  <2>6. CASE UNCHANGED vars
      BY <2>6 DEF vars, rowVars, Evidence, SentWasAccepted
  <2>. QED BY <2>1, <2>2, <2>3, <2>4, <2>5, <2>6 DEF Next
<1>3. Evidence => SentWasAccepted
    BY DEF Evidence
<1>. QED BY <1>1, <1>2, <1>3, TypeCorrect, PTL DEF Spec

-----------------------------------------------------------------------------

\* A row whose status, copies at the relay and goroutines do not change stays
\* true.
LEMMA TrueRowFrame ==
    ASSUME NEW e \in Email, TrueRow(e),
           status'[e] = status[e], accepted'[e] = accepted[e],
           \A s \in Sender : (Works(s, e) \/ Works(s, e)') => task'[s] = task[s]
    PROVE  TrueRow(e)'
BY DEF TrueRow, Works, OnTrack, Settled

\* Truth is an invariant: each operation on an undisturbed row keeps row, relay
\* and the goroutine at work in agreement.
LEMMA TruthHolds == Spec => []Truth
<1>1. Init => Truth
    BY DEF Init, Truth, TrueRow, Works, Settled
<1>2. TypeOK /\ Truth /\ [Next]_vars => Truth'
  <2> SUFFICES ASSUME TypeOK, Truth, [Next]_vars, NEW e \in Email, e \notin disturbed'
               PROVE  TrueRow(e)'
      BY DEF Truth
  <2>1. ASSUME NEW s \in Sender, NEW d \in Email,
               SendEmail(s, d) \/ ResendEmail(s, d) \/ ProcessNext(s, d)
        PROVE  TrueRow(e)'
    <3>1. TrueRow(e) /\ status' = status /\ accepted' = accepted
        BY <2>1, BeginEffect DEF Truth
    <3>2. CASE e # d
      <4>1. \A t \in Sender : (Works(t, e) \/ Works(t, e)') => task'[t] = task[t]
          BY <2>1, <3>2, BeginEffect DEF Works
      <4>. QED BY <3>1, <4>1, TrueRowFrame
    <3>3. CASE e = d
      <4>1. \A t \in Sender : ~Works(t, e)
          BY <2>1, <3>3, BeginEffect DEF Busy, Works
      <4>2. \A t \in Sender : Works(t, e)' => t = s
          BY <2>1, <4>1, BeginEffect DEF Works
      <4>3. Settled(e) /\ Settled(e)'
          BY <3>1, <4>1 DEF TrueRow, Settled
      <4>4. Works(s, e)' /\ OnTrack(s, e)'
          BY <2>1, <3>1, <3>3, <4>3, BeginEffect DEF Works, OnTrack
      <4>. QED BY <3>1, <4>2, <4>4 DEF TrueRow
    <3>. QED BY <3>2, <3>3
  <2>2. ASSUME NEW s \in Sender, Step(s) PROVE TrueRow(e)'
    <3>1. TrueRow(e) /\ task[s] # Idle
        BY <2>2, StepFrame, StepTypes DEF Truth
    <3>2. task'[s] = Idle \/ task'[s].email = task[s].email
        BY <2>2, AtFields DEF Step, CreateSentEmail, GetSentEmail, Send, UpdateSentEmail,
           Become, TypeOK
    <3>3. CASE e # task[s].email
      <4>1. \A t \in Sender : (Works(t, e) \/ Works(t, e)') => task'[t] = task[t]
          BY <2>2, <3>2, <3>3, StepFrame DEF Works
      <4>. QED BY <2>2, <3>1, <3>3, <4>1, StepFrame, TrueRowFrame
    <3>4. CASE e = task[s].email
      <4>1. Works(s, e) /\ OnTrack(s, e)
          BY <3>1, <3>4 DEF TrueRow, Works
      <4>2. \A t \in Sender : Works(t, e)' => t = s
          BY <2>2, <3>1, <4>1, StepFrame DEF TrueRow, Works
      <4>3. SUFFICES /\ accepted'[e] \in {0, 1}
                     /\ status'[e] = "absent" => accepted'[e] = 0
                     /\ task'[s] = Idle => Settled(e)'
                     /\ task'[s] # Idle => OnTrack(s, e)'
        <5>1. task'[s] # Idle => Works(s, e)'
            BY <3>2, <3>4 DEF Works
        <5>. QED BY <4>2, <4>3, <5>1 DEF TrueRow, Works
      <4>4. CASE CreateSentEmail(s)
          BY <3>1, <3>4, <4>1, <4>4, AtFields DEF CreateSentEmail, Become, Disturb, TypeOK,
             TrueRow, OnTrack
      <4>5. CASE GetSentEmail(s)
        <5>1. CanRetry(RowOf(e)) => status[e] = "failed"
            BY DEF CanRetry, RowOf
        <5>2. status' = status /\ accepted' = accepted /\ Settled(e)
            BY <4>1, <4>5 DEF GetSentEmail, OnTrack, rowVars
        <5>3. task'[s] # Idle => task'[s].at = "send" /\ status[e] = "failed"
            BY <3>4, <4>5, <5>1, AtFields DEF GetSentEmail, Become, TypeOK
        <5>. QED BY <3>1, <5>2, <5>3 DEF TrueRow, Settled, OnTrack
      <4>6. CASE Send(s)
        <5>1. status' = status /\ status[e] # "absent" /\ accepted[e] = 0
            BY <4>1, <4>6 DEF Send, OnTrack, rowVars
        <5>2. task'[s] # Idle /\ task'[s].at = "update"
            BY <4>6, AtFields DEF Send, Become, TypeOK
        <5>3. \/ accepted'[e] = 1 /\ task'[s].copy.status = "sent"
              \/ accepted'[e] = 0 /\ task'[s].copy.status = "failed"
            BY <3>4, <4>6, <5>1, AtFields DEF Send, Accept, Become, Disturb, TypeOK,
               MarkAsSent, MarkAsFailed
        <5>. QED BY <5>1, <5>2, <5>3 DEF OnTrack
      <4>7. CASE UpdateSentEmail(s)
          BY <3>1, <3>4, <4>1, <4>7 DEF UpdateSentEmail, Become, Disturb, TypeOK, TrueRow,
             OnTrack, Settled
      <4>. QED BY <2>2, <4>4, <4>5, <4>6, <4>7 DEF Step
    <3>. QED BY <3>3, <3>4
  <2>3. ASSUME NEW s \in Sender, ProcessRetryQueue(s) PROVE TrueRow(e)'
      BY <2>3, TrueRowFrame DEF ProcessRetryQueue, rowVars, Truth
  <2>4. ASSUME NEW s \in Sender, Die(s) PROVE TrueRow(e)'
    <3>1. e # task[s].email /\ TrueRow(e)
        BY <2>4 DEF Die, Disturb, Truth
    <3>2. \A t \in Sender : (Works(t, e) \/ Works(t, e)') => task'[t] = task[t]
        BY <2>4, <3>1 DEF Die, Become, Works, TypeOK
    <3>. QED BY <2>4, <3>1, <3>2, TrueRowFrame DEF Die, rowVars
  <2>5. ASSUME NEW d \in Email, Elapse(d) PROVE TrueRow(e)'
      BY <2>5, TrueRowFrame DEF Elapse, Truth
  <2>6. CASE UNCHANGED vars
      BY <2>6, TrueRowFrame DEF vars, rowVars, Truth
  <2>. QED BY <2>1, <2>2, <2>3, <2>4, <2>5, <2>6 DEF Next
<1>. QED BY <1>1, <1>2, TypeCorrect, PTL DEF Spec

\* Without a failure and without an overlap the relay gets a message at most once:
\* NoDuplicates for every number of emails, goroutines and retries.
THEOREM DuplicatesHaveACause == Spec => []NoDuplicates
<1>1. TypeOK /\ Truth => NoDuplicates
  <2> SUFFICES ASSUME TypeOK, Truth, NEW e \in Email, e \notin disturbed
               PROVE  ~(accepted[e] > 1)
      BY DEF NoDuplicates
  <2>1. TrueRow(e)
      BY DEF Truth
  <2>. QED BY <2>1 DEF TrueRow
<1>. QED BY <1>1, TypeCorrect, TruthHolds, PTL

\* Without a failure and without an overlap a row nobody works on says what
\* happened: SettledRowIsTrue for every number of emails, goroutines and retries.
THEOREM RowsAreTrue == Spec => []SettledRowIsTrue
<1>1. TypeOK /\ Truth => SettledRowIsTrue
  <2> SUFFICES ASSUME TypeOK, Truth, NEW e \in Email, e \notin disturbed,
                      status[e] # "absent", Busy(e) = {}
               PROVE  /\ status[e] \in {"sent", "failed"}
                      /\ status[e] = "sent" <=> accepted[e] = 1
      BY DEF SettledRowIsTrue
  <2>1. TrueRow(e)
      BY DEF Truth
  <2>2. \A s \in Sender : ~Works(s, e)
      BY DEF Busy, Works
  <2>. QED BY <2>1, <2>2 DEF TrueRow, Settled
<1>. QED BY <1>1, TypeCorrect, TruthHolds, PTL

\* A sent row stays sent unless it was disturbed: SentIsKept for every number of
\* emails, goroutines and retries.
THEOREM SentRowsAreKept == Spec => SentIsKept
<1> DEFINE Kept == \A e \in Email :
                      (status[e] = "sent" /\ e \notin disturbed) => status'[e] = "sent"
<1>1. TypeOK /\ SentWasAccepted /\ Truth /\ [Next]_vars => [Kept]_vars
  <2> SUFFICES ASSUME TypeOK, SentWasAccepted, Truth, [Next]_vars, NEW e \in Email,
                      status[e] = "sent", e \notin disturbed
               PROVE  status'[e] = "sent"
      OBVIOUS
  <2>1. TrueRow(e) /\ accepted[e] = 1
      BY DEF Truth, TrueRow, SentWasAccepted
  <2>2. ASSUME NEW s \in Sender, Step(s), status'[e] # status[e]
        PROVE  status'[e] = "sent"
    <3>1. e = task[s].email /\ Works(s, e)
        BY <2>2, StepFrame, StepTypes DEF Works
    <3>2. OnTrack(s, e)
        BY <2>1, <3>1 DEF TrueRow
    <3>3. CreateSentEmail(s) \/ UpdateSentEmail(s)
        BY <2>2 DEF Step, GetSentEmail, Send, rowVars
    <3>4. UpdateSentEmail(s) /\ task[s].copy.status = "sent"
        BY <2>1, <3>2, <3>3 DEF CreateSentEmail, UpdateSentEmail, OnTrack
    <3>. QED BY <2>2, <3>1, <3>4 DEF UpdateSentEmail, rowVars, TypeOK
  <2>3. ASSUME NEW s \in Sender, NEW d \in Email,
               SendEmail(s, d) \/ ResendEmail(s, d) \/ ProcessNext(s, d)
        PROVE  status'[e] = "sent"
      BY <2>3, BeginEffect
  <2>4. ASSUME NEW s \in Sender, ProcessRetryQueue(s) \/ Die(s)
        PROVE  status'[e] = "sent"
      BY <2>4 DEF ProcessRetryQueue, Die, rowVars
  <2>5. ASSUME NEW d \in Email, Elapse(d)
        PROVE  status'[e] = "sent"
      BY <2>5 DEF Elapse
  <2>6. CASE UNCHANGED vars
      BY <2>6 DEF vars, rowVars
  <2>. QED BY <2>2, <2>3, <2>4, <2>5, <2>6 DEF Next
<1>. QED BY <1>1, TypeCorrect, SentMeansAccepted, TruthHolds, PTL DEF Spec, SentIsKept
-----------------------------------------------------------------------------
(* Retries wait.  First the arithmetic of Backoff: the delays of up to     *)
(* SafeRetries failures do not wrap around.  Zenon writes numbers out in   *)
(* unary, so steps with large ones are for SMT alone.                      *)

\* The equation of the carries in Times.
Carries(w, k, c) == c = [i \in 0..4 |-> IF i = 0 THEN 0 ELSE (w[i] * k + c[i - 1]) \div Limb]

\* It has a solution, so that the recursive function is what its equation says.
LEMMA CarriesExist ==
    ASSUME NEW w, NEW k
    PROVE  \E c : Carries(w, k, c)
<1>1. PICK c1 : c1 = (w[1] * k + 0) \div Limb
  OBVIOUS
<1>2. PICK c2 : c2 = (w[2] * k + c1) \div Limb
  OBVIOUS
<1>3. PICK c3 : c3 = (w[3] * k + c2) \div Limb
  OBVIOUS
<1>4. PICK c4 : c4 = (w[4] * k + c3) \div Limb
  OBVIOUS
<1> DEFINE c == [i \in 0..4 |-> IF i = 0 THEN 0 ELSE IF i = 1 THEN c1 ELSE IF i = 2 THEN c2
                                ELSE IF i = 3 THEN c3 ELSE c4]
<1>5. c[0] = 0 /\ c[1] = c1 /\ c[2] = c2 /\ c[3] = c3 /\ c[4] = c4
  OBVIOUS
<1> HIDE DEF c
<1>6. ASSUME NEW i \in 0..4 PROVE c[i] = IF i = 0 THEN 0 ELSE (w[i] * k + c[i - 1]) \div Limb
  <2>1. CASE i = 0
    BY <1>5, <2>1
  <2>2. CASE i = 1
    BY <1>1, <1>5, <2>2
  <2>3. CASE i = 2
    BY <1>2, <1>5, <2>3
  <2>4. CASE i = 3
    BY <1>3, <1>5, <2>4
  <2>5. CASE i = 4
    BY <1>4, <1>5, <2>5
  <2> QED BY <2>1, <2>2, <2>3, <2>4, <2>5
<1>7. Carries(w, k, c)
  BY <1>6 DEF Carries, c
<1> QED BY <1>7

\* Four limbs.
Word(w) == w \in [1..4 -> Nat] /\ \A i \in 1..4 : w[i] < 65536

\* Digit and carry of a column.
LEMMA Column ==
    ASSUME NEW x \in Nat
    PROVE  /\ x \div 65536 \in Nat
           /\ x % 65536 \in Nat /\ x % 65536 < 65536
           /\ x = 65536 * (x \div 65536) + (x % 65536)
<1>1. x \div 65536 \in Nat
  BY SMT
<1>2. x % 65536 \in Nat /\ x % 65536 < 65536
  BY SMT
<1>3. x = 65536 * (x \div 65536) + (x % 65536)
  BY SMT
<1> QED BY <1>1, <1>2, <1>3, SMT

\* t has the digits of the product of w and k, and there are the carries to show it.
Columns(w, k, t) ==
    \E c1 \in Nat, c2 \in Nat, c3 \in Nat, c4 \in Nat :
       /\ w[1] * k      = Limb * c1 + t[1]
       /\ w[2] * k + c1 = Limb * c2 + t[2]
       /\ w[3] * k + c2 = Limb * c3 + t[3]
       /\ w[4] * k + c3 = Limb * c4 + t[4]

\* Times is long multiplication: its four columns.
LEMMA TimesColumns ==
    ASSUME NEW w, Word(w), NEW k \in Nat
    PROVE  /\ Word(Times(w, k))
           /\ Columns(w, k, Times(w, k))
<1>1. PICK c : Carries(w, k, c) /\ Times(w, k) = [i \in 1..4 |-> (w[i] * k + c[i - 1]) % Limb]
  BY CarriesExist, SMT DEF Times, Carries
<1>2. w[1] \in Nat /\ w[2] \in Nat /\ w[3] \in Nat /\ w[4] \in Nat
  BY SMT DEF Word
<1>3. PICK p1 \in Nat, p2 \in Nat, p3 \in Nat, p4 \in Nat :
         p1 = w[1] * k /\ p2 = w[2] * k /\ p3 = w[3] * k /\ p4 = w[4] * k
  <2>1. \A a \in Nat : a * k \in Nat
    BY SMT
  <2>2. w[1] * k \in Nat /\ w[2] * k \in Nat /\ w[3] * k \in Nat /\ w[4] * k \in Nat
    BY <2>1, <1>2, Zenon
  <2> QED BY <2>2, Zenon
<1>4. c[0] = 0 /\ c[1] = (p1 + c[0]) \div 65536 /\ c[2] = (p2 + c[1]) \div 65536
      /\ c[3] = (p3 + c[2]) \div 65536 /\ c[4] = (p4 + c[3]) \div 65536
  BY <1>1, <1>3, SMT DEF Carries, Limb
<1>5. PICK t : t = Times(w, k)
  BY SMT
<1>6. t[1] = (p1 + c[0]) % 65536 /\ t[2] = (p2 + c[1]) % 65536 /\ t[3] = (p3 + c[2]) % 65536
      /\ t[4] = (p4 + c[3]) % 65536
  BY <1>1, <1>3, <1>5, SMT DEF Limb
<1>8. c[1] \in Nat /\ t[1] \in Nat /\ t[1] < 65536 /\ p1 = 65536 * c[1] + t[1]
  BY <1>4, <1>6, Column, SMT
<1>9. c[2] \in Nat /\ t[2] \in Nat /\ t[2] < 65536 /\ p2 + c[1] = 65536 * c[2] + t[2]
  BY <1>4, <1>6, <1>8, Column, SMT
<1>10. c[3] \in Nat /\ t[3] \in Nat /\ t[3] < 65536 /\ p3 + c[2] = 65536 * c[3] + t[3]
  BY <1>4, <1>6, <1>9, Column, SMT
<1>11. c[4] \in Nat /\ t[4] \in Nat /\ t[4] < 65536 /\ p4 + c[3] = 65536 * c[4] + t[4]
  BY <1>4, <1>6, <1>10, Column, SMT
<1>12. Word(t)
  <2>1. t = [i \in 1..4 |-> t[i]]
    BY <1>1, <1>5, SMT
  <2>2. \A i \in 1..4 : t[i] \in Nat /\ t[i] < 65536
    BY <1>8, <1>9, <1>10, <1>11, SMT
  <2> QED BY <2>1, <2>2, SMT DEF Word
<1>13. Columns(w, k, t)
  <2>1. /\ p1        = 65536 * c[1] + t[1]
        /\ p2 + c[1] = 65536 * c[2] + t[2]
        /\ p3 + c[2] = 65536 * c[3] + t[3]
        /\ p4 + c[3] = 65536 * c[4] + t[4]
    BY <1>8, <1>9, <1>10, <1>11, SMT
  <2>2. /\ w[1] * k        = Limb * c[1] + t[1]
        /\ w[2] * k + c[1] = Limb * c[2] + t[2]
        /\ w[3] * k + c[2] = Limb * c[3] + t[3]
        /\ w[4] * k + c[3] = Limb * c[4] + t[4]
    BY <1>3, <2>1, SMT DEF Limb
  <2>3. c[1] \in Nat /\ c[2] \in Nat /\ c[3] \in Nat /\ c[4] \in Nat
    BY <1>8, <1>9, <1>10, <1>11, SMT
  <2> SUFFICES \E d1 \in Nat, d2 \in Nat, d3 \in Nat, d4 \in Nat :
                  /\ w[1] * k      = Limb * d1 + t[1]
                  /\ w[2] * k + d1 = Limb * d2 + t[2]
                  /\ w[3] * k + d2 = Limb * d3 + t[3]
                  /\ w[4] * k + d3 = Limb * d4 + t[4]
    BY DEF Columns
  <2> USE <2>3
  <2> WITNESS c[1] \in Nat, c[2] \in Nat, c[3] \in Nat, c[4] \in Nat
  <2> QED BY <2>2
<1> QED BY <1>5, <1>12, <1>13

\* w is the number v, of at most two limbs.
Low(w, v) == Word(w) /\ w[3] = 0 /\ w[4] = 0 /\ v = 65536 * w[2] + w[1]

\* 3^15: what the loop has after SafeRetries rounds.
Largest == 14348907

\* One round of the loop: nothing is carried out of the lower two limbs.
LEMMA Tripled ==
    ASSUME NEW w, NEW v \in Nat, v <= Largest, Low(w, v)
    PROVE  Low(Times(w, 3), 3 * v)
<1>1. PICK t : t = Times(w, 3)
  BY SMT
<1>2. PICK c1 \in Nat, c2 \in Nat, c3 \in Nat, c4 \in Nat :
         /\ w[1] * 3      = 65536 * c1 + t[1]
         /\ w[2] * 3 + c1 = 65536 * c2 + t[2]
         /\ w[3] * 3 + c2 = 65536 * c3 + t[3]
         /\ w[4] * 3 + c3 = 65536 * c4 + t[4]
  <2>1. Columns(w, 3, t)
    BY <1>1, TimesColumns DEF Low
  <2> QED BY <2>1, SMT DEF Columns, Limb
<1>3. /\ w[1] \in Nat /\ w[2] \in Nat /\ w[3] = 0 /\ w[4] = 0
      /\ v = 65536 * w[2] + w[1]
  BY SMT DEF Low, Word
<1>4. /\ t[1] \in Nat /\ t[2] \in Nat /\ t[3] \in Nat /\ t[4] \in Nat
      /\ t[1] < 65536 /\ t[2] < 65536 /\ t[3] < 65536 /\ t[4] < 65536
  <2>1. Word(t)
    BY <1>1, TimesColumns DEF Low
  <2> QED BY <2>1, SMT DEF Word
<1>5. c2 = 0
  <2>1. w[2] <= 218 /\ w[1] < 65536
    BY <1>3, SMT DEF Largest, Low, Word
  <2>2. c1 < 3
    BY <1>2, <1>3, <1>4, <2>1, SMT
  <2>3. w[2] * 3 + c1 < 65536
    BY <1>3, <2>1, <2>2, SMT
  <2>4. 65536 * c2 + t[2] < 65536
    BY <1>2, <2>3, SMT
  <2> QED BY <1>4, <2>4, SMT
<1>6. c3 = 0 /\ t[3] = 0
  BY <1>2, <1>3, <1>4, <1>5, SMT
<1>7. t[4] = 0
  BY <1>2, <1>3, <1>4, <1>6, SMT
<1>8. 3 * v = 65536 * t[2] + t[1]
  <2>1. t[2] = w[2] * 3 + c1
    <3>1. w[2] * 3 + c1 = 65536 * c2 + t[2]
      BY <1>2, SMT
    <3> QED BY <3>1, <1>3, <1>4, <1>5, SMT
  <2>2. t[1] = w[1] * 3 - 65536 * c1
    BY <1>2, <1>3, <1>4, SMT
  <2> QED BY <1>3, <2>1, <2>2, SMT
<1> QED BY <1>1, <1>6, <1>7, <1>8, TimesColumns, SMT DEF Low

\* 3^15 times five minutes is less than 2^63 nanoseconds.
LEMMA NoOverflow ==
    ASSUME NEW w, NEW v \in Nat, v <= Largest, Low(w, v)
    PROVE  ~Negative(Times(Times(Times(w, 30000), 10000), 1000))
<1>1. PICK x : x = Times(w, 30000)
  BY SMT
<1>2. PICK y : y = Times(x, 10000)
  BY SMT
<1>3. PICK z : z = Times(y, 1000)
  BY SMT
<1>4. Word(w) /\ w[1] < 65536 /\ w[1] \in Nat /\ w[2] \in Nat /\ w[2] <= 218 /\ w[3] = 0 /\ w[4] = 0
  BY SMT DEF Low, Word, Largest
<1>5. Word(x) /\ x[3] \in Nat /\ x[3] <= 100 /\ x[4] = 0
  <2>1. PICK c1 \in Nat, c2 \in Nat, c3 \in Nat, c4 \in Nat :
           /\ w[1] * 30000      = 65536 * c1 + x[1]
           /\ w[2] * 30000 + c1 = 65536 * c2 + x[2]
           /\ w[3] * 30000 + c2 = 65536 * c3 + x[3]
           /\ w[4] * 30000 + c3 = 65536 * c4 + x[4]
    <3>1. Columns(w, 30000, x)
      BY <1>1, <1>4, TimesColumns
    <3> QED BY <3>1, SMT DEF Columns, Limb
  <2>2. Word(x)
    BY <1>1, <1>4, TimesColumns
  <2>3. x[1] \in Nat /\ x[2] \in Nat /\ x[3] \in Nat /\ x[4] \in Nat
    BY <2>2, SMT DEF Word
  <2>4. c1 < 30000
    BY <2>1, <2>3, <1>4, SMT
  <2>5. c2 <= 100
    BY <2>1, <2>3, <2>4, <1>4, SMT
  <2>6. c3 = 0 /\ x[3] = c2
    <3>1. c2 = 65536 * c3 + x[3]
      BY <2>1, <2>3, <1>4, SMT
    <3> QED BY <2>3, <2>5, <3>1, SMT
  <2>7. c4 = 0 /\ x[4] = 0
    BY <2>1, <2>3, <2>6, <1>4, SMT
  <2> QED BY <2>2, <2>5, <2>6, <2>7, SMT
<1>6. Word(y) /\ y[4] \in Nat /\ y[4] <= 30
  <2>1. PICK c1 \in Nat, c2 \in Nat, c3 \in Nat, c4 \in Nat :
           /\ x[1] * 10000      = 65536 * c1 + y[1]
           /\ x[2] * 10000 + c1 = 65536 * c2 + y[2]
           /\ x[3] * 10000 + c2 = 65536 * c3 + y[3]
           /\ x[4] * 10000 + c3 = 65536 * c4 + y[4]
    <3>1. Columns(x, 10000, y)
      BY <1>2, <1>5, TimesColumns
    <3> QED BY <3>1, SMT DEF Columns, Limb
  <2>2. Word(y)
    BY <1>2, <1>5, TimesColumns
  <2>3. y[1] \in Nat /\ y[2] \in Nat /\ y[3] \in Nat /\ y[4] \in Nat
    BY <2>2, SMT DEF Word
  <2>4. x[1] \in Nat /\ x[1] < 65536 /\ x[2] \in Nat /\ x[2] < 65536
    BY <1>5, SMT DEF Word
  <2>5. c1 < 10000
    BY <2>1, <2>3, <2>4, SMT
  <2>6. c2 < 10000
    BY <2>1, <2>3, <2>4, <2>5, SMT
  <2>7. c3 <= 30
    BY <2>1, <2>3, <2>6, <1>5, SMT
  <2>8. y[4] <= 30
    BY <2>1, <2>3, <2>7, <1>5, SMT
  <2> QED BY <2>2, <2>3, <2>8, SMT
<1>7. z[4] \in Nat /\ z[4] < 32768
  <2>1. PICK c1 \in Nat, c2 \in Nat, c3 \in Nat, c4 \in Nat :
           /\ y[1] * 1000      = 65536 * c1 + z[1]
           /\ y[2] * 1000 + c1 = 65536 * c2 + z[2]
           /\ y[3] * 1000 + c2 = 65536 * c3 + z[3]
           /\ y[4] * 1000 + c3 = 65536 * c4 + z[4]
    <3>1. Columns(y, 1000, z)
      BY <1>3, <1>6, TimesColumns
    <3> QED BY <3>1, SMT DEF Columns, Limb
  <2>2. Word(z)
    BY <1>3, <1>6, TimesColumns
  <2>3. z[1] \in Nat /\ z[2] \in Nat /\ z[3] \in Nat /\ z[4] \in Nat
    BY <2>2, SMT DEF Word
  <2>4. /\ y[1] \in Nat /\ y[1] < 65536 /\ y[2] \in Nat /\ y[2] < 65536
        /\ y[3] \in Nat /\ y[3] < 65536
    BY <1>6, SMT DEF Word
  <2>5. c1 < 1000
    BY <2>1, <2>3, <2>4, SMT
  <2>6. c2 < 1000
    BY <2>1, <2>3, <2>4, <2>5, SMT
  <2>7. c3 < 1000
    BY <2>1, <2>3, <2>4, <2>6, SMT
  <2>8. z[4] < 32768
    BY <2>1, <2>3, <2>7, <1>6, SMT
  <2> QED BY <2>3, <2>8, SMT
<1> QED BY <1>1, <1>2, <1>3, <1>7, SMT DEF Negative

\* The equation of the loop's delays in Power.
Delays(n, d) == d = [i \in 0..n |-> IF i = 0 THEN One ELSE Times(d[i - 1], 3)]

\* After n rounds the loop has the number v.
Reaches(n, v) == (\E d : Delays(n, d)) /\ \A d : Delays(n, d) => Low(d[n], v)

LEMMA FirstRound == Reaches(0, 1)
<1>1. PICK d : d = [i \in 0..0 |-> One]
  OBVIOUS
<1>2. Delays(0, d)
  <2>1. \A i \in 0..0 : d[i] = IF i = 0 THEN One ELSE Times(d[i - 1], 3)
    BY <1>1, SMT
  <2> QED BY <1>1, <2>1 DEF Delays
<1>3. Low(One, 1)
  BY SMT DEF Low, One, Word
<1>4. ASSUME NEW e, Delays(0, e) PROVE Low(e[0], 1)
  <2>1. e[0] = One
    BY <1>4, SMT DEF Delays
  <2> QED BY <1>3, <2>1
<1> QED BY <1>2, <1>4 DEF Reaches

\* A solution for n rounds extends to n + 1, and one for n + 1 contains one for n.
LEMMA NextRound ==
    ASSUME NEW n \in Nat, NEW v \in Nat, v <= Largest, Reaches(n, v)
    PROVE  Reaches(n + 1, 3 * v)
<1>1. \E d : Delays(n + 1, d)
  <2>1. PICK d : Delays(n, d)
    BY DEF Reaches
  <2>2. PICK e : e = [i \in 0..n + 1 |-> IF i = n + 1 THEN Times(d[n], 3) ELSE d[i]]
    OBVIOUS
  <2>3. ASSUME NEW i \in 0..n + 1
        PROVE  e[i] = IF i = 0 THEN One ELSE Times(e[i - 1], 3)
    <3>1. CASE i = n + 1
      <4>1. e[n] = d[n] /\ e[i] = Times(d[n], 3)
        BY <2>2, <3>1, SMT
      <4> QED BY <3>1, <4>1, SMT
    <3>2. CASE i \in 0..n
      <4>1. d[i] = IF i = 0 THEN One ELSE Times(d[i - 1], 3)
        BY <2>1, <3>2, SMT DEF Delays
      <4>2. e[i] = d[i] /\ (i # 0 => e[i - 1] = d[i - 1])
        BY <2>2, <3>2, SMT
      <4> QED BY <4>1, <4>2
    <3> QED BY <3>1, <3>2, SMT
  <2>4. e = [i \in 0..n + 1 |-> e[i]]
    BY <2>2
  <2>5. Delays(n + 1, e)
    BY <2>3, <2>4, Zenon DEF Delays
  <2> QED BY <2>5
<1>2. ASSUME NEW e, Delays(n + 1, e) PROVE Low(e[n + 1], 3 * v)
  <2>1. PICK d : d = [i \in 0..n |-> e[i]]
    OBVIOUS
  <2>2. ASSUME NEW i \in 0..n PROVE d[i] = IF i = 0 THEN One ELSE Times(d[i - 1], 3)
    <3>1. e[i] = IF i = 0 THEN One ELSE Times(e[i - 1], 3)
      BY <1>2, SMT DEF Delays
    <3>2. d[i] = e[i] /\ (i # 0 => d[i - 1] = e[i - 1])
      BY <2>1, SMT
    <3> QED BY <3>1, <3>2
  <2>3. d = [i \in 0..n |-> d[i]]
    BY <2>1
  <2>4. Delays(n, d)
    BY <2>2, <2>3, Zenon DEF Delays
  <2>5. Low(d[n], v)
    BY <2>4 DEF Reaches
  <2>6. e[n + 1] = Times(d[n], 3)
    <3>1. d[n] = e[n]
      BY <2>1, SMT
    <3>2. e[n + 1] = Times(e[n], 3)
      BY <1>2, SMT DEF Delays
    <3> QED BY <3>1, <3>2
  <2> QED BY <2>5, <2>6, Tripled, SMT
<1> QED BY <1>1, <1>2 DEF Reaches

\* Reaches speaks of Power.
LEMMA PowerReached ==
    ASSUME NEW n, NEW v, Reaches(n, v)
    PROVE  Low(Power(n), v)
  BY Zenon DEF Reaches, Delays, Power

\* The fifteen safe delays, computed.
LEMMA SafeDelays ==
    ASSUME NEW n \in Nat, n <= SafeRetries
    PROVE  InFuture(n)
<1>1. Reaches(1, 3)
  BY FirstRound, NextRound, SMT DEF Largest
<1>2. Reaches(2, 9)
  BY <1>1, NextRound, SMT DEF Largest
<1>3. Reaches(3, 27)
  BY <1>2, NextRound, SMT DEF Largest
<1>4. Reaches(4, 81)
  BY <1>3, NextRound, SMT DEF Largest
<1>5. Reaches(5, 243)
  BY <1>4, NextRound, SMT DEF Largest
<1>6. Reaches(6, 729)
  BY <1>5, NextRound, SMT DEF Largest
<1>7. Reaches(7, 2187)
  BY <1>6, NextRound, SMT DEF Largest
<1>8. Reaches(8, 6561)
  BY <1>7, NextRound, SMT DEF Largest
<1>9. Reaches(9, 19683)
  BY <1>8, NextRound, SMT DEF Largest
<1>10. Reaches(10, 59049)
  BY <1>9, NextRound, SMT DEF Largest
<1>11. Reaches(11, 177147)
  BY <1>10, NextRound, SMT DEF Largest
<1>12. Reaches(12, 531441)
  BY <1>11, NextRound, SMT DEF Largest
<1>13. Reaches(13, 1594323)
  BY <1>12, NextRound, SMT DEF Largest
<1>14. Reaches(14, 4782969)
  BY <1>13, NextRound, SMT DEF Largest
<1>15. Reaches(15, 14348907)
  BY <1>14, NextRound, SMT DEF Largest
<1>16. PICK v \in Nat : v <= Largest /\ Reaches(n, v)
  BY FirstRound, <1>1, <1>2, <1>3, <1>4, <1>5, <1>6, <1>7, <1>8, <1>9, <1>10, <1>11, <1>12,
     <1>13, <1>14, <1>15, SMT DEF SafeRetries, Largest
<1>17. Low(Power(n), v)
  BY <1>16, PowerReached
<1> QED BY <1>16, <1>17, NoOverflow, SMT DEF InFuture, CalculateDelay

\* A goroutine about to write a failure that leaves a retry has drawn a time to come.
Delayed ==
    \A s \in Sender :
       (/\ task[s] # Idle /\ task[s].at = "update" /\ task[s].copy.status = "failed"
        /\ task[s].copy.retries < MaxRetries /\ task[s].copy.retries <= SafeRetries)
           => task[s].copy.retryAt = "later"

\* It is inductive: MarkAsFailed computes the time with the retry count it writes.
LEMMA DelayedHolds == Spec => []Delayed
<1>1. Init => Delayed
    BY DEF Init, Delayed
<1>2. TypeOK /\ Delayed /\ [Next]_vars => Delayed'
  <2> SUFFICES ASSUME TypeOK, Delayed, [Next]_vars PROVE Delayed'
      OBVIOUS
  <2>1. ASSUME NEW s \in Sender, NEW t, task' = [task EXCEPT ![s] = t],
               t = Idle \/ t.at # "update" \/ t.copy.status # "failed"
                  \/ t.copy.retries >= MaxRetries \/ t.copy.retries > SafeRetries
                  \/ t.copy.retryAt = "later",
               t # Idle => t.copy.retries \in Nat
        PROVE  Delayed'
    <3> SUFFICES ASSUME NEW u \in Sender,
                        task'[u] # Idle, task'[u].at = "update", task'[u].copy.status = "failed",
                        task'[u].copy.retries < MaxRetries, task'[u].copy.retries <= SafeRetries
                 PROVE  task'[u].copy.retryAt = "later"
        BY DEF Delayed
    <3>1. CASE u = s
        BY <2>1, <3>1, MaxRetriesAssumption DEF TypeOK, SafeRetries
    <3>2. CASE u # s
        BY <2>1, <3>2 DEF TypeOK, Delayed
    <3>. QED BY <3>1, <3>2
  <2>2. New.retries \in Nat
      BY DEF New
  <2>3. ASSUME NEW s \in Sender, NEW e \in Email,
               SendEmail(s, e) \/ ResendEmail(s, e) \/ ProcessNext(s, e)
        PROVE  Delayed'
    <3>1. PICK label \in {"create", "get"} : task' = [task EXCEPT ![s] = At(label, e, New)]
        BY <2>3 DEF SendEmail, ResendEmail, ProcessNext, Begin, Become
    <3>2. /\ At(label, e, New).at # "update"
          /\ At(label, e, New).copy.retries \in Nat
        BY <2>2, AtFields
    <3>. QED BY <2>1, <3>1, <3>2
  <2>4. ASSUME NEW s \in Sender, CreateSentEmail(s) PROVE Delayed'
    <3>1. \/ task' = [task EXCEPT ![s] = At("send", task[s].email, New)]
          \/ task' = [task EXCEPT ![s] = Idle]
        BY <2>4 DEF CreateSentEmail, Become
    <3>2. /\ At("send", task[s].email, New).at # "update"
          /\ At("send", task[s].email, New).copy.retries \in Nat
        BY <2>2, AtFields
    <3>. QED BY <2>1, <3>1, <3>2
  <2>5. ASSUME NEW s \in Sender, GetSentEmail(s) PROVE Delayed'
    <3> DEFINE c == RowOf(task[s].email)
               r == [status |-> "pending", retries |-> c.retries, retryAt |-> c.retryAt]
    <3>1. \/ task' = [task EXCEPT ![s] = At("send", task[s].email, r)]
          \/ task' = [task EXCEPT ![s] = Idle]
        BY <2>5 DEF GetSentEmail, Become
    <3>2. r.retries \in Nat
        BY <2>5, TaskTypes, RetryCapType DEF GetSentEmail, RowOf, TypeOK
    <3>. QED BY <2>1, <3>1, <3>2, AtFields
  <2>6. ASSUME NEW s \in Sender, Send(s) PROVE Delayed'
    <3> DEFINE c == task[s].copy
    <3>1. \/ task' = [task EXCEPT ![s] = At("update", task[s].email, MarkAsSent(c))]
          \/ task' = [task EXCEPT ![s] = At("update", task[s].email, MarkAsFailed(c))]
        BY <2>6 DEF Send, Become
    <3>2. c.retries \in Nat
        BY <2>6, TaskTypes, RetryCapType DEF Send
    <3>3. MarkAsSent(c).status # "failed" /\ MarkAsSent(c).retries \in Nat
        BY <3>2 DEF MarkAsSent
    <3>4. MarkAsFailed(c).retries = c.retries + 1 /\ MarkAsFailed(c).retries \in Nat
        BY <3>2 DEF MarkAsFailed
    <3>5. ASSUME c.retries + 1 < MaxRetries, c.retries + 1 <= SafeRetries
          PROVE  MarkAsFailed(c).retryAt = "later"
      <4>1. InFuture(c.retries + 1)
          BY <3>2, <3>5, SafeDelays
      <4>2. c.retries + 1 \in Waits
          BY <3>2, <3>5, <4>1, RetryCapType, MaxRetriesAssumption DEF Waits
      <4>3. ~(c.retries + 1 >= MaxRetries)
          BY <3>2, <3>5, MaxRetriesAssumption
      <4>. QED BY <4>2, <4>3 DEF MarkAsFailed
    <3>6. \/ MarkAsFailed(c).retries >= MaxRetries \/ MarkAsFailed(c).retries > SafeRetries
          \/ MarkAsFailed(c).retryAt = "later"
        BY <3>2, <3>4, <3>5, MaxRetriesAssumption DEF SafeRetries
    <3>7. /\ At("update", task[s].email, MarkAsSent(c)).copy = MarkAsSent(c)
          /\ At("update", task[s].email, MarkAsFailed(c)).copy = MarkAsFailed(c)
        BY AtFields
    <3>8. CASE task' = [task EXCEPT ![s] = At("update", task[s].email, MarkAsSent(c))]
        BY <2>1, <3>3, <3>7, <3>8
    <3>9. CASE task' = [task EXCEPT ![s] = At("update", task[s].email, MarkAsFailed(c))]
        BY <2>1, <3>4, <3>6, <3>7, <3>9
    <3>. QED BY <3>1, <3>8, <3>9
  <2>7. ASSUME NEW s \in Sender, UpdateSentEmail(s) \/ Die(s) PROVE Delayed'
    <3>1. task' = [task EXCEPT ![s] = Idle]
        BY <2>7 DEF UpdateSentEmail, Die, Become
    <3>. QED BY <2>1, <3>1
  <2>8. CASE UNCHANGED task
      BY <2>8 DEF Delayed
  <2>9. ASSUME NEW s \in Sender, ProcessRetryQueue(s) PROVE Delayed'
      BY <2>8, <2>9 DEF ProcessRetryQueue
  <2>10. ASSUME NEW e \in Email, Elapse(e) PROVE Delayed'
      BY <2>8, <2>10 DEF Elapse
  <2>11. CASE UNCHANGED vars
      BY <2>8, <2>11 DEF vars
  <2>. QED BY <2>3, <2>4, <2>5, <2>6, <2>7, <2>9, <2>10, <2>11 DEF Next, Step
<1>. QED BY <1>1, <1>2, TypeCorrect, PTL DEF Spec

\* A failure that leaves a retry is followed by a wait as long as the backoff has not
\* overflowed, which it does after no fewer than SafeRetries failures: RetryWaits for
\* every number of emails and goroutines and every retry limit.
THEOREM RetriesWait == Spec => RetryWaits
<1> DEFINE Waited == \A e \in Email :
                        (/\ status'[e] = "failed" /\ retries'[e] > retries[e]
                         /\ retries'[e] < MaxRetries /\ retries'[e] <= SafeRetries)
                            => retryAt'[e] = "later"
<1>1. TypeOK /\ Delayed /\ [Next]_vars => [Waited]_vars
  <2> SUFFICES ASSUME TypeOK, Delayed, [Next]_vars, NEW e \in Email,
                      status'[e] = "failed", retries'[e] > retries[e],
                      retries'[e] < MaxRetries, retries'[e] <= SafeRetries
               PROVE  retryAt'[e] = "later"
      OBVIOUS
  <2>1. retries' # retries
      BY RetryCapType DEF TypeOK
  <2>2. PICK s \in Sender : UpdateSentEmail(s)
    <3>1. ASSUME NEW s \in Sender, NEW d \in Email
          PROVE  ~(SendEmail(s, d) \/ ResendEmail(s, d) \/ ProcessNext(s, d))
        BY <2>1 DEF SendEmail, ResendEmail, ProcessNext, Begin, rowVars
    <3>2. ASSUME NEW s \in Sender PROVE ~(ProcessRetryQueue(s) \/ Die(s))
        BY <2>1 DEF ProcessRetryQueue, Die, rowVars
    <3>3. ASSUME NEW s \in Sender PROVE ~(CreateSentEmail(s) \/ GetSentEmail(s) \/ Send(s))
        BY <2>1 DEF CreateSentEmail, GetSentEmail, Send, rowVars
    <3>4. ASSUME NEW d \in Email PROVE ~Elapse(d)
        BY <2>1 DEF Elapse
    <3>5. ~(UNCHANGED vars)
        BY <2>1 DEF vars, rowVars
    <3>. QED BY <3>1, <3>2, <3>3, <3>4, <3>5 DEF Next, Step
  <2>3. task[s] # Idle /\ task[s].email \in Email
      BY <2>2, TaskTypes DEF UpdateSentEmail
  <2>4. e = task[s].email
      BY <2>1, <2>2, <2>3, RetryCapType DEF UpdateSentEmail, TypeOK, rowVars
  <2>5. /\ status'[e] = task[s].copy.status /\ retries'[e] = task[s].copy.retries
        /\ retryAt'[e] = task[s].copy.retryAt
      BY <2>1, <2>2, <2>3, <2>4 DEF UpdateSentEmail, TypeOK, rowVars
  <2>. QED BY <2>2, <2>3, <2>5 DEF Delayed, UpdateSentEmail
<1>. QED BY <1>1, TypeCorrect, DelayedHolds, PTL DEF Spec, RetryWaits
=============================================================================
