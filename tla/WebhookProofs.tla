---------------------------- MODULE WebhookProofs ----------------------------
(***************************************************************************)
(* Theorems about webhooks.                                                *)
(*                                                                         *)
(* The first part is about WebhookConfigs, for all sets of configurations, *)
(* domains, users, names and goroutines, every threshold and either        *)
(* IdentityKind; the second about WebhookWorker, for all sets of jobs and  *)
(* of workers, finite or not, every buffer size and every positive number  *)
(* of attempts.                                                            *)
(***************************************************************************)
EXTENDS WebhookConfigs, WebhookQueues, FiniteSetTheorems, TLAPS

-----------------------------------------------------------------------------
(* The inductive invariant.                                                *)

\* The name that will be inserted is for an id nobody else has, and no copy is half
\* open; one that is being delivered was loaded with a closed breaker.
Sound(t) ==
    /\ t.at = "insert" => row[t.config] = Absent /\ t.copy.breaker = "closed"
    /\ t.at = "deliver" => t.copy.breaker = "closed"
    /\ t.at = "write" => t.copy.breaker # "half_open"

\* A copy that says an open breaker is closed is known to be stale.
Fresh(a, t) ==
    t.at \in {"write", "deliver"} /\ Live(t.config) /\ row[t.config].breaker = "open"
       => t.copy.breaker = "open" \/ a \in stale

\* An id that is about to be inserted has one holder.
InsertsAlone ==
    \A a, b \in Actor : task[a].at = "insert" /\ task[b] # Idle /\ task[b].config = task[a].config => a = b

RowsSound == \A c \in Config : Live(c) => row[c].breaker # "half_open"

IInv ==
    /\ TypeOK
    /\ NamesUnique
    /\ RowsSound
    /\ \A a \in Actor : Sound(task[a]) /\ Fresh(a, task[a])
    /\ InsertsAlone

-----------------------------------------------------------------------------
(* Facts about rows and tasks.                                             *)

LEMMA RowFacts ==
    ASSUME TypeOK, NEW c \in Config
    PROVE  /\ Live(c) => row[c] \in Row
           /\ ~Live(c) => row[c] \in {Absent, Gone}
    BY DEF TypeOK, Live

LEMMA TaskFacts ==
    ASSUME TypeOK, NEW a \in Actor
    PROVE  /\ task[a] # Idle => task[a] \in Task /\ task[a].config \in Config
           /\ task[a] = Idle => task[a].at = "idle"
           /\ task[a].at \in {"insert", "write", "deliver"} => task[a].copy \in Row
           /\ task[a] # Idle => task[a].act \in Act
    BY DEF TypeOK, Task, Idle

LEMMA HoldingFacts ==
    ASSUME NEW l \in {"insert", "write", "deliver"}, NEW c \in Config, NEW x \in Act, NEW r \in Row
    PROVE  /\ Holding(l, c, x, r) \in Task /\ Holding(l, c, x, r) # Idle
           /\ Holding(l, c, x, r).at = l /\ Holding(l, c, x, r).config = c
           /\ Holding(l, c, x, r).copy = r
    BY DEF Holding, Task, Idle

LEMMA AtFacts ==
    ASSUME NEW l \in {"audit", "delete"}, NEW c \in Config, NEW x \in Act
    PROVE  /\ At(l, c, x) \in Task /\ At(l, c, x) # Idle
           /\ At(l, c, x).at = l /\ At(l, c, x).config = c
    BY DEF At, Task, Idle

LEMMA BecomeFacts ==
    ASSUME TypeOK, NEW a \in Actor, NEW t \in Task \cup {Idle}, Become(a, t)
    PROVE  /\ task' \in [Actor -> Task \cup {Idle}]
           /\ task'[a] = t
           /\ \A b \in Actor : b # a => task'[b] = task[b]
    BY DEF TypeOK, Become

LEMMA RecordFacts ==
    ASSUME TypeOK, NEW c \in Config, NEW lost \in BOOLEAN,
           NEW v \in {"none", "enabled", "disabled", "unreliable"}, Record(c, lost, v)
    PROVE  audit' \in [Config -> {"none", "enabled", "disabled", "unreliable"}]
    BY DEF TypeOK, Record

LEMMA InitHolds == Init => IInv
<1> SUFFICES ASSUME Init PROVE IInv
    OBVIOUS
<1>1. \A c \in Config : row[c] = Absent
    BY DEF Init
<1>2. \A c \in Config : ~Live(c)
    BY <1>1 DEF Live
<1>3. \A a \in Actor : task[a] = Idle /\ task[a].at = "idle"
    BY DEF Init, Idle
<1>4. TypeOK
    BY DEF Init, TypeOK
<1> QED BY <1>2, <1>3, <1>4 DEF IInv, NamesUnique, RowsSound, Sound, Fresh, InsertsAlone

-----------------------------------------------------------------------------
(* What a step does to one goroutine.                                      *)

\* What a goroutine may turn to without disturbing the invariant: nothing, what is
\* next with the same configuration, a live configuration, or an id nobody holds.
MayBecome(a, t) ==
    \/ t = Idle
    \/ /\ Sound(t) /\ Fresh(a, t)
       /\ \/ task[a] # Idle /\ task[a].config = t.config /\ t.at # "insert"
          \/ t.at # "insert" /\ row[t.config] # Absent
          \/ \A b \in Actor : task[b] # Idle => task[b].config # t.config

\* A goroutine changes what it is at, and no row changes.
LEMMA Moves ==
    ASSUME IInv, NEW a \in Actor, NEW t \in Task \cup {Idle}, Become(a, t),
           UNCHANGED row, stale' \subseteq Actor, stale' \in {stale, stale \ {a}},
           audit' \in [Config -> {"none", "enabled", "disabled", "unreliable"}],
           MayBecome(a, t), t = Idle \/ stale' = stale
    PROVE  IInv'
<1>1. /\ task' \in [Actor -> Task \cup {Idle}] /\ task'[a] = t
      /\ \A b \in Actor : b # a => task'[b] = task[b]
    BY BecomeFacts DEF IInv
<1>2. TypeOK'
    BY <1>1 DEF IInv, TypeOK
<1>3. NamesUnique' /\ RowsSound'
    BY DEF IInv, NamesUnique, RowsSound, Live
<1>4. ASSUME NEW b \in Actor PROVE Sound(task[b])' /\ Fresh(b, task[b])'
  <2>1. CASE b # a
    BY <1>1, <2>1 DEF IInv, Sound, Fresh, Live
  <2>2. CASE b = a /\ t = Idle
    BY <1>1, <2>2 DEF Sound, Fresh, Idle
  <2>3. CASE b = a /\ t # Idle
    BY <1>1, <2>3 DEF MayBecome, Sound, Fresh, Live
  <2> QED BY <2>1, <2>2, <2>3
<1>5. InsertsAlone'
  <2> SUFFICES ASSUME NEW b \in Actor, NEW d \in Actor, task'[b].at = "insert", task'[d] # Idle,
                      task'[d].config = task'[b].config, b # d
               PROVE  FALSE
    BY DEF InsertsAlone
  <2>1. CASE b # a /\ d # a
    BY <1>1, <2>1 DEF IInv, InsertsAlone
  <2>2. CASE b = a
    <3>1. task[d] # Idle /\ task[d].config = t.config /\ t.at = "insert" /\ t # Idle
      BY <1>1, <2>2 DEF Idle
    <3> QED BY <3>1 DEF MayBecome
  <2>3. CASE d = a
    <3>1. task[b].at = "insert" /\ task[b] # Idle /\ task[b].config = t.config /\ t # Idle
      BY <1>1, <2>3 DEF Idle
    <3>2. row[t.config] = Absent
      BY <3>1 DEF IInv, Sound
    <3>3. task[a] = Idle \/ task[a].config # t.config
      BY <3>1, <2>3 DEF IInv, InsertsAlone
    <3> QED BY <2>3, <3>1, <3>2, <3>3 DEF MayBecome
  <2> QED BY <2>1, <2>2, <2>3
<1> QED BY <1>2, <1>3, <1>4, <1>5 DEF IInv

\* A goroutine stores its copy.
LEMMA Stores ==
    ASSUME IInv, NEW a \in Actor, NEW c \in Config, NEW r \in Row, NEW t \in Task \cup {Idle},
           task[a] # Idle, task[a].config = c,
           Unique(c, r), Store(a, r), Become(a, t),
           audit' \in [Config -> {"none", "enabled", "disabled", "unreliable"}],
           r.breaker # "half_open", r # Absent,
           t = Idle \/ (t.at \in {"audit", "delete"} /\ t.config = c),
           Live(c) \/ task[a].at = "insert"
    PROVE  IInv'
<1>1. /\ task' \in [Actor -> Task \cup {Idle}] /\ task'[a] = t
      /\ \A b \in Actor : b # a => task'[b] = task[b]
    BY BecomeFacts DEF IInv
<1>2. /\ row' \in [Config -> Row \cup {Absent, Gone}] /\ row'[c] = r
      /\ \A d \in Config : d # c => row'[d] = row[d]
    BY DEF IInv, TypeOK, Store
<1>3. /\ stale' \subseteq Actor
      /\ \A b \in Actor : b # a /\ b \in stale => b \in stale'
      /\ \A b \in Actor : b # a /\ task[b] # Idle /\ task[b].config = c /\ task[b].at \in {"write", "deliver"}
            => b \in stale'
    BY DEF IInv, TypeOK, Store, Holders
<1>4. TypeOK'
    BY <1>1, <1>2, <1>3 DEF IInv, TypeOK
<1>5. Live(c)' /\ \A d \in Config : d # c => (Live(d)' <=> Live(d))
    BY <1>2 DEF Live, Row, Absent, Gone
<1>6. NamesUnique'
  <2> SUFFICES ASSUME NEW d \in Config, NEW e \in Config, Live(d)', Live(e)', d # e,
                      row'[d].domain = row'[e].domain, row'[d].name = row'[e].name
               PROVE  FALSE
    BY DEF NamesUnique
  <2>1. \A f \in Config : Live(f) /\ row[f].domain = r.domain /\ row[f].name = r.name => f = c
    BY DEF Unique, Named
  <2> QED BY <1>2, <1>5, <2>1 DEF IInv, NamesUnique
<1>7. RowsSound'
    BY <1>2, <1>5 DEF IInv, RowsSound
<1>8. ASSUME NEW b \in Actor PROVE Sound(task[b])' /\ Fresh(b, task[b])'
  <2>1. CASE b = a
    BY <1>1, <2>1 DEF Sound, Fresh, Idle
  <2>2. CASE b # a /\ task[b] = Idle
    BY <1>1, <2>2 DEF Sound, Fresh, Idle
  <2>3. CASE b # a /\ task[b] # Idle /\ task[b].config = c
    <3>1. task[b].at # "insert"
      BY <2>3 DEF IInv, InsertsAlone
    <3> QED BY <1>1, <1>3, <2>3, <3>1 DEF IInv, Sound, Fresh
  <2>4. CASE b # a /\ task[b] # Idle /\ task[b].config # c
    <3>1. task[b].config \in Config
      BY <2>4, TaskFacts DEF IInv
    <3> QED BY <1>1, <1>2, <1>3, <1>5, <2>4, <3>1 DEF IInv, Sound, Fresh
  <2> QED BY <2>1, <2>2, <2>3, <2>4
<1>9. InsertsAlone'
    BY <1>1 DEF IInv, InsertsAlone, Idle
<1> QED BY <1>4, <1>6, <1>7, <1>8, <1>9 DEF IInv

-----------------------------------------------------------------------------
(* One lemma per action.                                                   *)

LEMMA CreateConfigurationStep ==
    ASSUME IInv, NEW a \in Actor, NEW u \in User, NEW d \in Domain, NEW n \in Name,
           NEW p \in Params, NEW cb \in BOOLEAN, CreateWebhookConfiguration(a, u, d, n, p, cb)
    PROVE  IInv'
<1>1. PICK c \in Config : /\ row[c] = Absent /\ Holders(c) = {}
                          /\ Become(a, Holding("insert", c, "created", NewRow(d, n, cb)))
    BY DEF CreateWebhookConfiguration
<1> DEFINE t == Holding("insert", c, "created", NewRow(d, n, cb))
<1>2. NewRow(d, n, cb) \in Row /\ NewRow(d, n, cb).breaker = "closed"
    BY ThresholdAssumption DEF NewRow, Row
<1>3. "created" \in Act
    BY DEF Act
<1>4. t \in Task /\ t # Idle /\ t.at = "insert" /\ t.config = c /\ t.copy = NewRow(d, n, cb)
    BY <1>2, <1>3, HoldingFacts
<1>5. Sound(t) /\ Fresh(a, t)
    BY <1>1, <1>2, <1>4 DEF Sound, Fresh
<1>6. \A b \in Actor : task[b] # Idle => task[b].config # t.config
    BY <1>1, <1>4 DEF Holders
<1>7. /\ UNCHANGED row /\ stale' = stale /\ stale' \subseteq Actor
      /\ audit' \in [Config -> {"none", "enabled", "disabled", "unreliable"}]
    BY DEF CreateWebhookConfiguration, IInv, TypeOK
<1>8. Become(a, t)
    BY <1>1
<1>9. MayBecome(a, t)
    BY <1>5, <1>6 DEF MayBecome
<1> HIDE DEF t
<1> QED BY <1>4, <1>7, <1>8, <1>9, Moves

\* A request has read the row and holds a copy of it, or goes for the audit log.
LEMMA ReadStep ==
    ASSUME IInv, NEW a \in Actor, NEW u \in User, NEW c \in Config,
           GetWebhookConfiguration(a, u, c), UNCHANGED <<row, audit, stale>>,
           NEW t, Become(a, t),
           \/ \E x \in Act, r \in Row :
                 t = Holding("write", c, x, r) /\ r.breaker = row[c].breaker
           \/ \E x \in Act : t = At("audit", c, x)
    PROVE  IInv'
<1>1. Live(c) /\ row[c] \in Row /\ row[c].breaker # "half_open" /\ row[c] # Absent
    BY RowFacts DEF GetWebhookConfiguration, GetByID, IInv, RowsSound, Live
<1>2. UNCHANGED row /\ stale' = stale /\ stale' \subseteq Actor
      /\ audit' \in [Config -> {"none", "enabled", "disabled", "unreliable"}]
    BY DEF IInv, TypeOK
<1>3. CASE \E x \in Act, r \in Row : t = Holding("write", c, x, r) /\ r.breaker = row[c].breaker
  <2>1. PICK x \in Act, r \in Row : t = Holding("write", c, x, r) /\ r.breaker = row[c].breaker
    BY <1>3
  <2>2. t \in Task /\ t # Idle /\ t.at = "write" /\ t.config = c /\ t.copy = r
    BY <2>1, HoldingFacts
  <2>3. Sound(t) /\ Fresh(a, t)
    BY <1>1, <2>1, <2>2 DEF Sound, Fresh
  <2>4. MayBecome(a, t)
    BY <1>1, <2>2, <2>3 DEF MayBecome
  <2> QED BY <1>2, <2>2, <2>4, Moves
<1>4. CASE \E x \in Act : t = At("audit", c, x)
  <2>1. PICK x \in Act : t = At("audit", c, x)
    BY <1>4
  <2>2. t \in Task /\ t # Idle /\ t.at = "audit" /\ t.config = c
    BY <2>1, AtFacts
  <2>3. Sound(t) /\ Fresh(a, t)
    BY <2>2 DEF Sound, Fresh
  <2>4. MayBecome(a, t)
    BY <1>1, <2>2, <2>3 DEF MayBecome
  <2> QED BY <1>2, <2>2, <2>4, Moves
<1> QED BY <1>3, <1>4

LEMMA RequestStep ==
    ASSUME IInv, NEW a \in Actor, NEW u \in User, Request(a, u)
    PROVE  IInv'
<1>1. ASSUME NEW d \in Domain, NEW n \in Name, NEW p \in Params, NEW cb \in BOOLEAN,
             CreateWebhookConfig(a, u, d, n, p, cb)
      PROVE  IInv'
    BY <1>1, CreateConfigurationStep DEF CreateWebhookConfig
<1>2. ASSUME NEW d \in Domain, NEW n \in Name, CreateConfigFromTemplate(a, u, d, n)
      PROVE  IInv'
    BY <1>2, CreateConfigurationStep DEF CreateConfigFromTemplate, CreateFromTemplate, Params
<1>3. ASSUME NEW c \in Config, UpdateWebhookConfig(a, u, c) PROVE IInv'
  <2>1. PICK n \in Name, cb \in BOOLEAN :
           Become(a, Holding("write", c, Says(row[c].enabled), [scanWebhookConfig(c) EXCEPT !.name = n, !.cbEnabled = cb]))
    BY <1>3 DEF UpdateWebhookConfig, UpdateWebhookConfiguration
  <2>2. row[c] \in Row
    BY <1>3, RowFacts DEF UpdateWebhookConfig, UpdateWebhookConfiguration, GetWebhookConfiguration, GetByID, IInv
  <2>3. /\ [scanWebhookConfig(c) EXCEPT !.name = n, !.cbEnabled = cb] \in Row
        /\ [scanWebhookConfig(c) EXCEPT !.name = n, !.cbEnabled = cb].breaker = row[c].breaker
    BY <2>2 DEF Row, scanWebhookConfig
  <2>4. Says(row[c].enabled) \in Act
    BY DEF Act, Says
  <2>5. GetWebhookConfiguration(a, u, c) /\ UNCHANGED <<row, audit, stale>>
    BY <1>3 DEF UpdateWebhookConfig, UpdateWebhookConfiguration
  <2> QED BY <2>1, <2>3, <2>4, <2>5, ReadStep
<1>4. ASSUME NEW c \in Config, NEW on \in BOOLEAN, NEW x \in Act, SetEnabled(a, u, c, on, x)
      PROVE  IInv'
  <2>1. row[c] \in Row
    BY <1>4, RowFacts DEF SetEnabled, GetWebhookConfiguration, GetByID, IInv
  <2>2. /\ [scanWebhookConfig(c) EXCEPT !.enabled = on] \in Row
        /\ [scanWebhookConfig(c) EXCEPT !.enabled = on].breaker = row[c].breaker
    BY <2>1 DEF Row, scanWebhookConfig
  <2>3. /\ GetWebhookConfiguration(a, u, c) /\ UNCHANGED <<row, audit, stale>>
        /\ Become(a, Holding("write", c, x, [scanWebhookConfig(c) EXCEPT !.enabled = on]))
    BY <1>4 DEF SetEnabled
  <2> QED BY <2>2, <2>3, ReadStep
<1>5. ASSUME NEW c \in Config, EnableWebhookConfig(a, u, c) \/ DisableWebhookConfig(a, u, c) PROVE IInv'
    BY <1>4, <1>5 DEF EnableWebhookConfig, DisableWebhookConfig, EnableWebhookConfiguration,
                      DisableWebhookConfiguration, Act
<1>6. ASSUME NEW c \in Config, GetWebhookHealth(a, u, c) PROVE IInv'
  <2>1. /\ GetWebhookConfiguration(a, u, c) /\ UNCHANGED <<row, audit, stale>>
        /\ Become(a, Holding("write", c, "none", row[c]))
    BY <1>6 DEF GetWebhookHealth, CheckWebhookHealth, scanWebhookConfig
  <2>2. row[c] \in Row
    BY <2>1, RowFacts DEF GetWebhookConfiguration, GetByID, IInv
  <2>3. "none" \in Act
    BY DEF Act
  <2> QED BY <2>1, <2>2, <2>3, ReadStep
<1>7. ASSUME NEW c \in Config, TestWebhookConfig(a, u, c) \/ DeleteWebhookConfig(a, u, c) PROVE IInv'
  <2>1. /\ GetWebhookConfiguration(a, u, c) /\ UNCHANGED <<row, audit, stale>>
        /\ \E x \in Act : Become(a, At("audit", c, x))
    BY <1>7 DEF TestWebhookConfig, DeleteWebhookConfig, TestWebhookConfiguration,
                DeleteWebhookConfiguration, Act
  <2>2. PICK x \in Act : Become(a, At("audit", c, x))
    BY <2>1
  <2> QED BY <2>1, <2>2, ReadStep
<1> QED BY <1>1, <1>2, <1>3, <1>5, <1>6, <1>7 DEF Request

LEMMA IdleMoves ==
    ASSUME IInv, NEW a \in Actor, Become(a, Idle), UNCHANGED row,
           stale' \in {stale, stale \ {a}},
           audit' \in [Config -> {"none", "enabled", "disabled", "unreliable"}]
    PROVE  IInv'
<1>1. MayBecome(a, Idle)
    BY DEF MayBecome
<1>2. stale' \subseteq Actor
    BY DEF IInv, TypeOK
<1>3. Idle \in Task \cup {Idle}
    OBVIOUS
<1> QED BY <1>1, <1>2, <1>3, Moves

LEMMA CreateStep ==
    ASSUME IInv, NEW a \in Actor, NEW c \in Config, Create(a, c)
    PROVE  IInv'
<1>1. task[a] # Idle /\ task[a].at = "insert" /\ task[a].config = c
    BY DEF Create
<1>2. audit' \in [Config -> {"none", "enabled", "disabled", "unreliable"}]
    BY DEF Create, IInv, TypeOK
<1>3. CASE InsertRow(a, c, task[a].copy) /\ Become(a, At("audit", c, task[a].act))
  <2>1. task[a].copy \in Row /\ task[a].copy.breaker = "closed" /\ task[a].act \in Act
    BY <1>1, TaskFacts DEF IInv, Sound
  <2>2. task[a].copy # Absent
    BY <2>1 DEF Row, Absent
  <2>3. LET t == At("audit", c, task[a].act) IN t \in Task /\ t.at = "audit" /\ t.config = c
    BY <2>1, AtFacts
  <2> QED BY <1>1, <1>2, <1>3, <2>1, <2>2, <2>3, Stores DEF InsertRow
<1>4. CASE Finish(a) /\ UNCHANGED row
    BY <1>2, <1>4, IdleMoves DEF Finish
<1> QED BY <1>3, <1>4 DEF Create

LEMMA UpdateStep ==
    ASSUME IInv, NEW a \in Actor, NEW c \in Config, Update(a, c)
    PROVE  IInv'
<1>1. task[a] # Idle /\ task[a].at = "write" /\ task[a].config = c
    BY DEF Update
<1>2. CASE Finish(a) /\ UNCHANGED <<row, audit>>
    BY <1>2, IdleMoves DEF Finish, IInv, TypeOK
<1>3. CASE ~(Finish(a) /\ UNCHANGED <<row, audit>>)
  <2>0. Misleads(a, c, task[a]) \in BOOLEAN
    BY DEF Misleads
  <2>1. /\ UpdateRow(a, c, task[a].copy)
        /\ \E lost \in BOOLEAN : Record(c, lost, audit[c])
        /\ \/ Become(a, Idle)
           \/ Become(a, At("audit", c, task[a].act))
    BY <1>3, <2>0 DEF Update
  <2>2. audit' \in [Config -> {"none", "enabled", "disabled", "unreliable"}]
    BY <2>1, RecordFacts DEF IInv, TypeOK
  <2>3. task[a].copy \in Row /\ task[a].copy.breaker # "half_open" /\ task[a].act \in Act
    BY <1>1, TaskFacts DEF IInv, Sound
  <2>4. task[a].copy # Absent
    BY <2>3 DEF Row, Absent
  <2>5. LET t == At("audit", c, task[a].act) IN t \in Task /\ t.at = "audit" /\ t.config = c
    BY <2>3, AtFacts
  <2>6. Unique(c, task[a].copy) /\ Store(a, task[a].copy) /\ Live(c)
    BY <2>1 DEF UpdateRow
  <2>7. PICK t \in Task \cup {Idle} : Become(a, t) /\ (t = Idle \/ (t.at \in {"audit", "delete"} /\ t.config = c))
    BY <2>1, <2>5
  <2> QED BY <1>1, <2>2, <2>3, <2>4, <2>6, <2>7, Stores
<1> QED BY <1>2, <1>3

LEMMA CreateAuditStep ==
    ASSUME IInv, NEW a \in Actor, NEW c \in Config, CreateAudit(a, c)
    PROVE  IInv'
<1>1. task[a] # Idle /\ task[a].at = "audit" /\ task[a].config = c /\ UNCHANGED <<row, stale>>
    BY DEF CreateAudit
<1>2. task[a].act \in Act
    BY <1>1, TaskFacts DEF IInv
<1>3. audit[c] \in {"none", "enabled", "disabled", "unreliable"}
    BY DEF IInv, TypeOK
<1>4. audit' \in [Config -> {"none", "enabled", "disabled", "unreliable"}]
    BY <1>3 DEF CreateAudit, Record, IInv, TypeOK
<1>5. CASE task[a].act = "deleted"
  <2>1. PICK t : t = At("delete", c, task[a].act)
    OBVIOUS
  <2>2. t \in Task /\ t # Idle /\ t.at = "delete" /\ t.config = c /\ Become(a, t)
    BY <1>2, <1>5, <2>1, AtFacts DEF CreateAudit
  <2>3. MayBecome(a, t)
    BY <1>1, <2>2 DEF MayBecome, Sound, Fresh
  <2>4. stale' = stale /\ stale' \subseteq Actor /\ UNCHANGED row
    BY <1>1 DEF IInv, TypeOK
  <2> QED BY <1>4, <2>2, <2>3, <2>4, Moves
<1>6. CASE task[a].act # "deleted"
    BY <1>1, <1>4, <1>6, IdleMoves DEF CreateAudit
<1> QED BY <1>5, <1>6

LEMMA DeleteStep ==
    ASSUME IInv, NEW a \in Actor, NEW c \in Config, Delete(a, c)
    PROVE  IInv'
<1>1. task[a] # Idle /\ task[a].at = "delete" /\ task[a].config = c /\ Finish(a)
    BY DEF Delete
<1>2. CASE Record(c, TRUE, audit[c]) /\ UNCHANGED row
  <2>1. audit' \in [Config -> {"none", "enabled", "disabled", "unreliable"}]
    BY <1>2, RecordFacts DEF IInv, TypeOK
  <2> QED BY <1>1, <1>2, <2>1, IdleMoves DEF Finish
<1>3. CASE DeleteRow(c)
  <2>1. /\ task' \in [Actor -> Task \cup {Idle}] /\ task'[a] = Idle
        /\ \A b \in Actor : b # a => task'[b] = task[b]
    BY <1>1, BecomeFacts DEF Finish, IInv
  <2>2. /\ row' \in [Config -> Row \cup {Absent, Gone}] /\ row'[c] = Gone /\ Live(c)
        /\ \A d \in Config : d # c => row'[d] = row[d]
        /\ audit' \in [Config -> {"none", "enabled", "disabled", "unreliable"}]
    BY <1>3 DEF DeleteRow, IInv, TypeOK
  <2>3. stale' \subseteq Actor /\ \A b \in Actor : b # a /\ b \in stale => b \in stale'
    BY <1>1 DEF Finish, IInv, TypeOK
  <2>4. ~Live(c)' /\ \A d \in Config : d # c => (Live(d)' <=> Live(d))
    BY <2>2 DEF Live
  <2>5. TypeOK'
    BY <2>1, <2>2, <2>3 DEF IInv, TypeOK
  <2>6. NamesUnique' /\ RowsSound'
    BY <2>2, <2>4 DEF IInv, NamesUnique, RowsSound
  <2>7. ASSUME NEW b \in Actor PROVE Sound(task[b])' /\ Fresh(b, task[b])'
    <3>1. CASE task'[b] = Idle
      BY <3>1 DEF Sound, Fresh, Idle
    <3>2. CASE task'[b] # Idle
      <4>1. b # a /\ task'[b] = task[b] /\ task[b].config \in Config
        BY <2>1, <3>2, TaskFacts DEF IInv
      <4>2. task[b].config = c => task[b].at # "insert"
        BY <2>2, <4>1 DEF IInv, Sound, Live
      <4> QED BY <2>2, <2>3, <2>4, <4>1, <4>2 DEF IInv, Sound, Fresh
    <3> QED BY <3>1, <3>2
  <2>8. InsertsAlone'
    BY <2>1 DEF IInv, InsertsAlone, Idle
  <2> QED BY <2>5, <2>6, <2>7, <2>8 DEF IInv
<1> QED BY <1>2, <1>3 DEF Delete

LEMMA LoadStep ==
    ASSUME IInv, NEW a \in Actor, NEW c \in Config, LoadWebhookConfigsForEvent(a, c)
    PROVE  IInv'
<1>1. Live(c) /\ row[c].breaker # "open" /\ UNCHANGED <<row, audit, stale>>
    BY DEF LoadWebhookConfigsForEvent, GetActiveByDomainID
<1>2. row[c] \in Row /\ row[c].breaker = "closed" /\ row[c] # Absent
    BY <1>1, RowFacts DEF IInv, RowsSound, Row, Live
<1>3. CanAttemptDelivery(scanWebhookConfig(c)) \subseteq {row[c]}
    BY <1>1, <1>2 DEF CanAttemptDelivery, scanWebhookConfig, Row
<1>4. Become(a, Holding("deliver", c, "none", row[c]))
    BY <1>3 DEF LoadWebhookConfigsForEvent
<1>5. "none" \in Act
    BY DEF Act
<1>6. PICK t : t = Holding("deliver", c, "none", row[c])
    OBVIOUS
<1>7. t \in Task /\ t # Idle /\ t.at = "deliver" /\ t.config = c /\ t.copy = row[c]
    BY <1>2, <1>5, <1>6, HoldingFacts
<1>8. Sound(t) /\ Fresh(a, t)
    BY <1>1, <1>2, <1>7 DEF Sound, Fresh
<1>9. stale' \subseteq Actor /\ audit' \in [Config -> {"none", "enabled", "disabled", "unreliable"}]
    BY <1>1 DEF IInv, TypeOK
<1>10. MayBecome(a, t)
    BY <1>2, <1>7, <1>8 DEF MayBecome
<1> QED BY <1>1, <1>4, <1>6, <1>7, <1>9, <1>10, Moves

LEMMA ResultFacts ==
    ASSUME NEW r \in Row, r.breaker = "closed"
    PROVE  /\ RecordSuccess(r) \in Row /\ RecordSuccess(r).breaker # "half_open"
           /\ RecordFailure(r) \in Row /\ RecordFailure(r).breaker # "half_open"
<1> USE ThresholdAssumption
<1>1. r.fails \in 0..Threshold /\ r.cbEnabled \in BOOLEAN
    BY DEF Row
<1>2. ASSUME NEW n \in 0..Threshold, NEW b \in {"closed", "open"}
      PROVE  /\ [r EXCEPT !.fails = n, !.breaker = b] \in Row
             /\ [r EXCEPT !.fails = n, !.breaker = b].breaker = b
    BY DEF Row
<1>3. RecordSuccess(r) = [r EXCEPT !.fails = 0, !.breaker = "closed"]
    BY DEF RecordSuccess, Row
<1>4. PICK n \in 0..Threshold : n = IF r.fails < Threshold THEN r.fails + 1 ELSE Threshold
    BY <1>1
<1>5. PICK b \in {"closed", "open"} : b = IF r.cbEnabled /\ n >= Threshold THEN "open" ELSE r.breaker
    BY <1>1
<1>6. RecordFailure(r) = [r EXCEPT !.fails = n, !.breaker = b]
    BY <1>4, <1>5 DEF RecordFailure
<1>7. 0 \in 0..Threshold
    OBVIOUS
<1>8. RecordSuccess(r) \in Row /\ RecordSuccess(r).breaker = "closed"
    BY <1>2, <1>3, <1>7
<1>9. /\ [r EXCEPT !.fails = n, !.breaker = b] \in Row
      /\ [r EXCEPT !.fails = n, !.breaker = b].breaker = b
    BY <1>2
<1>10. RecordFailure(r) \in Row /\ RecordFailure(r).breaker = b
    BY <1>6, <1>9
<1> QED BY <1>8, <1>10

LEMMA NotifyStep ==
    ASSUME IInv, NEW a \in Actor, NEW c \in Config, NotifyIncomingEmail(a, c)
    PROVE  IInv'
<1>1. /\ task[a] # Idle /\ task[a].at = "deliver" /\ task[a].config = c
      /\ UNCHANGED <<row, audit, stale>>
    BY DEF NotifyIncomingEmail
<1>2. task[a] \in Task /\ task[a].copy \in Row /\ task[a].copy.breaker = "closed" /\ task[a].act \in Act
    BY <1>1, TaskFacts DEF IInv, Sound
<1>3. CanAttemptDelivery(task[a].copy) \subseteq {task[a].copy}
    BY <1>2 DEF CanAttemptDelivery, Row
<1>4. PICK success \in BOOLEAN : RecordWebhookResult(a, task[a].copy, success)
    BY <1>3 DEF NotifyIncomingEmail, sendWebhookSyncWithConfig
<1>5. PICK r : r = IF success THEN RecordSuccess(task[a].copy) ELSE RecordFailure(task[a].copy)
    OBVIOUS
<1>6. r \in Row /\ r.breaker # "half_open"
    BY <1>2, <1>5, ResultFacts
<1>7. PICK t : t = [task[a] EXCEPT !.at = "write", !.copy = r]
    OBVIOUS
<1>8. t \in Task /\ t # Idle /\ t.at = "write" /\ t.config = c /\ t.copy = r
    BY <1>1, <1>2, <1>6, <1>7 DEF Task, Idle
<1>9. Become(a, t)
    BY <1>4, <1>5, <1>7 DEF RecordWebhookResult
<1>10. Sound(t) /\ Fresh(a, t)
    BY <1>1, <1>2, <1>6, <1>8 DEF IInv, Sound, Fresh
<1>11. stale' \subseteq Actor /\ audit' \in [Config -> {"none", "enabled", "disabled", "unreliable"}]
    BY <1>1 DEF IInv, TypeOK
<1>12. MayBecome(a, t)
    BY <1>1, <1>8, <1>10 DEF MayBecome
<1>13. stale' = stale /\ UNCHANGED row
    BY <1>1
<1> QED BY <1>8, <1>9, <1>11, <1>12, <1>13, Moves

LEMMA NextHolds ==
    ASSUME IInv, [Next]_vars
    PROVE  IInv'
<1>1. ASSUME NEW a \in Actor, NEW u \in User, Request(a, u) PROVE IInv'
    BY <1>1, RequestStep
<1>2. ASSUME NEW a \in Actor, NEW c \in Config, Step(a, c) PROVE IInv'
    BY <1>2, CreateStep, UpdateStep, CreateAuditStep, DeleteStep, LoadStep, NotifyStep DEF Step
<1>3. CASE UNCHANGED vars
    BY <1>3 DEF vars, IInv, TypeOK, NamesUnique, RowsSound, Sound, Fresh, InsertsAlone, Live
<1> QED BY <1>1, <1>2, <1>3 DEF Next

-----------------------------------------------------------------------------
(* The audit log.                                                          *)

Told(act) == IF act = "disabled" THEN "disabled" ELSE "enabled"

\* A request for an audit record that tells whether c is enabled.
Tells(t, c) == t.at = "audit" /\ t.config = c /\ t.act \in {"created", "enabled", "disabled"}

\* A copy carries what its record will tell; that of a delivery or a health check has
\* none.
CopyTells(t) ==
    /\ t.at = "insert" => t.act = "created" /\ Says(t.copy.enabled) = "enabled"
    /\ t.at = "deliver" => t.act = "none"
    /\ t.at = "write" => t.act \in {"enabled", "disabled", "none"}
    /\ t.at = "write" /\ t.act \in {"enabled", "disabled"} => Says(t.copy.enabled) = t.act

\* Every record to come tells the truth about the row, and when none is to come the
\* log already does.
LogAgrees(c) ==
    Live(c) /\ audit[c] # "unreliable" =>
       /\ \A a \in Actor : Tells(task[a], c) => Told(task[a].act) = Says(row[c].enabled)
       /\ (\A a \in Actor : ~Tells(task[a], c)) => audit[c] = Says(row[c].enabled)

AuditInv ==
    /\ \A a \in Actor : CopyTells(task[a])
    /\ \A c \in Config : LogAgrees(c)

LEMMA ActFacts ==
    ASSUME NEW l, NEW c, NEW x, NEW r
    PROVE  Holding(l, c, x, r).act = x
    BY DEF Holding

LEMMA InitAudit == Init => AuditInv
<1> SUFFICES ASSUME Init PROVE AuditInv
    OBVIOUS
<1>0. \A c \in Config : row[c] = Absent
    BY DEF Init
<1>1. \A c \in Config : ~Live(c)
    BY <1>0 DEF Live
<1>2. \A a \in Actor : task[a].at = "idle"
    BY DEF Init, Idle
<1> QED BY <1>1, <1>2 DEF AuditInv, CopyTells, LogAgrees

\* A goroutine that neither had nor gets a record to write that tells anything, while
\* rows and log stay as they are.
LEMMA QuietMoves ==
    ASSUME TypeOK, AuditInv, NEW a \in Actor, NEW t \in Task \cup {Idle}, Become(a, t),
           UNCHANGED <<row, audit>>, t = Idle \/ CopyTells(t),
           \A c \in Config : ~Tells(task[a], c) /\ ~Tells(t, c)
    PROVE  AuditInv'
<1>1. task'[a] = t /\ \A b \in Actor : b # a => task'[b] = task[b]
    BY BecomeFacts
<1>2. ASSUME NEW b \in Actor PROVE CopyTells(task[b])'
  <2>1. CASE b # a
    BY <1>1, <2>1 DEF AuditInv
  <2>2. CASE b = a /\ t = Idle
    BY <1>1, <2>2 DEF CopyTells, Idle
  <2>3. CASE b = a /\ t # Idle
    BY <1>1, <2>3
  <2> QED BY <2>1, <2>2, <2>3
<1>3. ASSUME NEW c \in Config PROVE LogAgrees(c)'
  <2>1. LogAgrees(c) /\ ~Tells(task[a], c) /\ ~Tells(t, c)
    BY DEF AuditInv
  <2>2. \A b \in Actor : Tells(task[b], c)' <=> Tells(task[b], c)
    BY <1>1, <2>1 DEF Tells
  <2>3. \A b \in Actor : Tells(task[b], c) => task'[b] = task[b]
    BY <1>1, <2>1
  <2> QED BY <2>1, <2>2, <2>3 DEF LogAgrees, Live
<1> QED BY <1>2, <1>3 DEF AuditInv

\* A request has read the row of c: its copy tells what its record will, if it will
\* leave one; the record of a test or of a deletion tells nothing.
LEMMA ReadAudit ==
    ASSUME TypeOK, AuditInv, NEW a \in Actor, NEW c \in Config, task[a] = Idle,
           UNCHANGED <<row, audit, stale>>, NEW t, Become(a, t),
           \/ \E r \in Row : t = Holding("write", c, "none", r)
           \/ \E x \in {"enabled", "disabled"}, r \in Row :
                 t = Holding("write", c, x, r) /\ Says(r.enabled) = x
           \/ \E x \in {"tested", "deleted"} : t = At("audit", c, x)
    PROVE  AuditInv'
<1>1. \A d \in Config : ~Tells(task[a], d)
    BY DEF Tells, Idle
<1>2. ASSUME NEW r \in Row, t = Holding("write", c, "none", r) PROVE AuditInv'
  <2>1. t \in Task /\ t.at = "write" /\ t.config = c /\ t.copy = r /\ t.act = "none"
    BY <1>2, HoldingFacts, ActFacts DEF Act
  <2>2. CopyTells(t) /\ \A d \in Config : ~Tells(t, d)
    BY <1>2, <2>1 DEF CopyTells, Tells
  <2> QED BY <1>1, <2>1, <2>2, QuietMoves
<1>3. ASSUME NEW x \in {"enabled", "disabled"}, NEW r \in Row, t = Holding("write", c, x, r),
             Says(r.enabled) = x
      PROVE  AuditInv'
  <2>1. t \in Task /\ t.at = "write" /\ t.config = c /\ t.copy = r /\ t.act = x
    BY <1>3, HoldingFacts, ActFacts DEF Act
  <2>2. CopyTells(t) /\ \A d \in Config : ~Tells(t, d)
    BY <1>3, <2>1 DEF CopyTells, Tells
  <2> QED BY <1>1, <2>1, <2>2, QuietMoves
<1>4. ASSUME NEW x \in {"tested", "deleted"}, t = At("audit", c, x) PROVE AuditInv'
  <2>0. x \in Act
    BY DEF Act
  <2>1. t \in Task /\ t.at = "audit" /\ t.config = c
    BY <1>4, <2>0, AtFacts
  <2>2. t.act = x
    BY <1>4 DEF At
  <2>3. CopyTells(t) /\ \A d \in Config : ~Tells(t, d)
    BY <1>4, <2>1, <2>2 DEF CopyTells, Tells
  <2> QED BY <1>1, <2>1, <2>3, QuietMoves
<1> QED BY <1>2, <1>3, <1>4

LEMMA RequestAudit ==
    ASSUME IInv, AuditInv, NEW a \in Actor, NEW u \in User, Request(a, u)
    PROVE  AuditInv'
<1>0. TypeOK
    BY DEF IInv
<1>1. ASSUME NEW d \in Domain, NEW n \in Name, NEW p \in Params, NEW cb \in BOOLEAN,
             CreateWebhookConfiguration(a, u, d, n, p, cb)
      PROVE  AuditInv'
  <2>1. PICK c \in Config : Become(a, Holding("insert", c, "created", NewRow(d, n, cb)))
    BY <1>1 DEF CreateWebhookConfiguration
  <2>2. NewRow(d, n, cb) \in Row /\ Says(NewRow(d, n, cb).enabled) = "enabled"
    BY ThresholdAssumption DEF NewRow, Row, Says
  <2>3. PICK t : t = Holding("insert", c, "created", NewRow(d, n, cb))
    OBVIOUS
  <2>4. t \in Task /\ t.at = "insert" /\ t.copy = NewRow(d, n, cb) /\ t.act = "created"
    BY <2>2, <2>3, HoldingFacts, ActFacts DEF Act
  <2>5. CopyTells(t) /\ \A e \in Config : ~Tells(t, e)
    BY <2>2, <2>4 DEF CopyTells, Tells
  <2>6. UNCHANGED <<row, audit, stale>> /\ \A e \in Config : ~Tells(task[a], e)
    BY <1>1 DEF CreateWebhookConfiguration, Tells, Idle
  <2> QED BY <1>0, <2>1, <2>3, <2>4, <2>5, <2>6, QuietMoves
<1>2. ASSUME NEW c \in Config, GetWebhookConfiguration(a, u, c)
      PROVE  task[a] = Idle /\ Live(c) /\ row[c] \in Row /\ row[c].enabled \in BOOLEAN
    BY <1>0, <1>2, RowFacts DEF GetWebhookConfiguration, GetByID, Row
<1>3. ASSUME NEW c \in Config, UpdateWebhookConfig(a, u, c) PROVE AuditInv'
  <2>1. PICK n \in Name, cb \in BOOLEAN :
           Become(a, Holding("write", c, Says(row[c].enabled), [scanWebhookConfig(c) EXCEPT !.name = n, !.cbEnabled = cb]))
    BY <1>3 DEF UpdateWebhookConfig, UpdateWebhookConfiguration
  <2>2. /\ task[a] = Idle /\ row[c] \in Row /\ UNCHANGED <<row, audit, stale>>
    BY <1>2, <1>3 DEF UpdateWebhookConfig, UpdateWebhookConfiguration
  <2>3. PICK r : r = [scanWebhookConfig(c) EXCEPT !.name = n, !.cbEnabled = cb]
    OBVIOUS
  <2>4. r \in Row /\ r.enabled = row[c].enabled
    BY <2>2, <2>3 DEF Row, scanWebhookConfig
  <2>5. Says(row[c].enabled) \in {"enabled", "disabled"}
    BY DEF Says
  <2> QED BY <1>0, <2>1, <2>2, <2>3, <2>4, <2>5, ReadAudit
<1>4. ASSUME NEW c \in Config, NEW on \in BOOLEAN, SetEnabled(a, u, c, on, Says(on)) PROVE AuditInv'
  <2>1. /\ task[a] = Idle /\ row[c] \in Row /\ UNCHANGED <<row, audit, stale>>
    BY <1>2, <1>4 DEF SetEnabled
  <2>2. PICK r : r = [scanWebhookConfig(c) EXCEPT !.enabled = on]
    OBVIOUS
  <2>3. r \in Row /\ r.enabled = on
    BY <2>1, <2>2 DEF Row, scanWebhookConfig
  <2>4. Become(a, Holding("write", c, Says(on), r)) /\ Says(on) \in {"enabled", "disabled"}
    BY <1>4, <2>2 DEF SetEnabled, Says
  <2> QED BY <1>0, <2>1, <2>3, <2>4, ReadAudit
<1>5. ASSUME NEW c \in Config, EnableWebhookConfig(a, u, c) \/ DisableWebhookConfig(a, u, c) PROVE AuditInv'
    BY <1>4, <1>5 DEF EnableWebhookConfig, DisableWebhookConfig, EnableWebhookConfiguration,
                      DisableWebhookConfiguration, Says
<1>6. ASSUME NEW c \in Config, GetWebhookHealth(a, u, c) PROVE AuditInv'
  <2>1. /\ task[a] = Idle /\ row[c] \in Row /\ UNCHANGED <<row, audit, stale>>
        /\ Become(a, Holding("write", c, "none", row[c]))
    BY <1>2, <1>6 DEF GetWebhookHealth, CheckWebhookHealth, scanWebhookConfig
  <2> QED BY <1>0, <2>1, ReadAudit
<1>7. ASSUME NEW c \in Config, TestWebhookConfig(a, u, c) \/ DeleteWebhookConfig(a, u, c) PROVE AuditInv'
  <2>1. /\ task[a] = Idle /\ UNCHANGED <<row, audit, stale>>
        /\ \E x \in {"tested", "deleted"} : Become(a, At("audit", c, x))
    BY <1>2, <1>7 DEF TestWebhookConfig, DeleteWebhookConfig, TestWebhookConfiguration,
                      DeleteWebhookConfiguration
  <2> QED BY <1>0, <2>1, ReadAudit
<1>8. ASSUME NEW d \in Domain, NEW n \in Name, CreateConfigFromTemplate(a, u, d, n) PROVE AuditInv'
    BY <1>1, <1>8 DEF CreateConfigFromTemplate, CreateFromTemplate, Params
<1>9. ASSUME NEW d \in Domain, NEW n \in Name, NEW p \in Params, NEW cb \in BOOLEAN,
             CreateWebhookConfig(a, u, d, n, p, cb)
      PROVE  AuditInv'
    BY <1>1, <1>9 DEF CreateWebhookConfig
<1> QED BY <1>3, <1>5, <1>6, <1>7, <1>8, <1>9 DEF Request

\* Everybody else's copy and record stay what they were, for a configuration whose
\* row and log do.
LEMMA Others ==
    ASSUME TypeOK, AuditInv, NEW a \in Actor, NEW c \in Config, NEW t \in Task \cup {Idle},
           Become(a, t), task[a] # Idle, task[a].config = c, t = Idle \/ t.config = c,
           NEW d \in Config, d # c, row'[d] = row[d], audit'[d] = audit[d]
    PROVE  LogAgrees(d)'
<1>1. task'[a] = t /\ \A b \in Actor : b # a => task'[b] = task[b]
    BY BecomeFacts
<1>2. LogAgrees(d) /\ (Live(d)' <=> Live(d))
    BY DEF AuditInv, Live
<1>3. ~Tells(task[a], d) /\ ~Tells(t, d)
    BY DEF Tells, Idle
<1>4. \A b \in Actor : Tells(task[b], d)' <=> Tells(task[b], d)
    BY <1>1, <1>3 DEF Tells
<1>5. \A b \in Actor : Tells(task[b], d) => task'[b] = task[b]
    BY <1>1, <1>3
<1> QED BY <1>2, <1>4, <1>5 DEF LogAgrees

\* A goroutine has stored r for c: the row is r, and the copies of the others stay.
LEMMA CopiesAfterStore ==
    ASSUME IInv, AuditInv, NEW a \in Actor, NEW c \in Config, NEW r \in Row,
           NEW t \in Task \cup {Idle},
           task[a] # Idle, task[a].config = c, Store(a, r), Become(a, t), t = Idle \/ t.at = "audit"
    PROVE  /\ \A b \in Actor : CopyTells(task[b])'
           /\ row'[c] = r /\ \A d \in Config : d # c => row'[d] = row[d]
<1>0. TypeOK
    BY DEF IInv
<1>1. task'[a] = t /\ \A b \in Actor : b # a => task'[b] = task[b]
    BY <1>0, BecomeFacts
<1>2. row'[c] = r /\ \A d \in Config : d # c => row'[d] = row[d]
    BY <1>0 DEF TypeOK, Store
<1>3. ASSUME NEW b \in Actor PROVE CopyTells(task[b])'
  <2>1. CASE task'[b].at \in {"idle", "audit"}
    BY <2>1 DEF CopyTells
  <2>2. CASE task'[b].at \notin {"idle", "audit"}
    <3>1. b # a /\ task'[b] = task[b] /\ task[b] # Idle
      BY <1>1, <2>2 DEF Idle
    <3> QED BY <3>1 DEF AuditInv
  <2> QED BY <2>1, <2>2
<1> QED BY <1>2, <1>3

LEMMA CreateAuditInv ==
    ASSUME IInv, AuditInv, NEW a \in Actor, NEW c \in Config, Create(a, c)
    PROVE  AuditInv'
<1>0. TypeOK
    BY DEF IInv
<1>1. task[a] # Idle /\ task[a].at = "insert" /\ task[a].config = c /\ UNCHANGED audit
    BY DEF Create
<1>2. task[a].act = "created" /\ Says(task[a].copy.enabled) = "enabled" /\ task[a].copy \in Row
    BY <1>0, <1>1, TaskFacts DEF AuditInv, CopyTells
<1>3. CASE InsertRow(a, c, task[a].copy) /\ Become(a, At("audit", c, task[a].act))
  <2>1. PICK t : t = At("audit", c, "created")
    OBVIOUS
  <2>2. "created" \in Act
    BY DEF Act
  <2>3. t \in Task /\ t.at = "audit" /\ t.config = c
    BY <2>1, <2>2, AtFacts
  <2>4. t.act = "created" /\ Become(a, t)
    BY <1>2, <1>3, <2>1 DEF At
  <2>5. Store(a, task[a].copy)
    BY <1>3 DEF InsertRow
  <2>6. /\ \A b \in Actor : CopyTells(task[b])'
        /\ row'[c] = task[a].copy /\ \A d \in Config : d # c => row'[d] = row[d]
    BY <1>1, <1>2, <2>3, <2>4, <2>5, CopiesAfterStore
  <2>7. task'[a] = t /\ \A b \in Actor : b # a => task'[b] = task[b]
    BY <1>0, <2>3, <2>4, BecomeFacts
  <2>8. ASSUME NEW b \in Actor, Tells(task[b], c)' PROVE b = a
    <3>1. b # a => task[b] # Idle /\ task[b].config = c
      BY <2>7, <2>8 DEF Tells, Idle
    <3> QED BY <1>1, <3>1 DEF IInv, InsertsAlone
  <2>9. Tells(task[a], c)'
    BY <2>3, <2>4, <2>7 DEF Tells
  <2>10. Told("created") = "enabled"
    BY DEF Told
  <2>11. LogAgrees(c)'
    BY <1>2, <2>4, <2>6, <2>7, <2>8, <2>9, <2>10 DEF LogAgrees
  <2>12. \A d \in Config : d # c => LogAgrees(d)'
    BY <1>0, <1>1, <2>3, <2>4, <2>6, Others
  <2> QED BY <2>6, <2>11, <2>12 DEF AuditInv
<1>4. CASE Finish(a) /\ UNCHANGED row
  <2>1. \A d \in Config : ~Tells(task[a], d) /\ ~Tells(Idle, d)
    BY <1>1 DEF Tells, Idle
  <2> QED BY <1>0, <1>1, <1>4, <2>1, QuietMoves DEF Finish
<1> QED BY <1>3, <1>4 DEF Create

LEMMA UpdateAuditInv ==
    ASSUME IInv, AuditInv, NEW a \in Actor, NEW c \in Config, Update(a, c)
    PROVE  AuditInv'
<1>0. TypeOK
    BY DEF IInv
<1>1. task[a] # Idle /\ task[a].at = "write" /\ task[a].config = c
    BY DEF Update
<1>2. CASE Finish(a) /\ UNCHANGED <<row, audit>>
  <2>1. \A d \in Config : ~Tells(task[a], d) /\ ~Tells(Idle, d)
    BY <1>1 DEF Tells, Idle
  <2> QED BY <1>0, <1>2, <2>1, QuietMoves DEF Finish
<1>3. CASE ~(Finish(a) /\ UNCHANGED <<row, audit>>)
  <2> DEFINE x == task[a].act
             r == task[a].copy
  <2>1. UpdateRow(a, c, r) /\ Record(c, Misleads(a, c, task[a]), audit[c])
    BY <1>3 DEF Update
  <2>2. IF x = "none" THEN Become(a, Idle) ELSE Become(a, At("audit", c, x))
    BY <1>3 DEF Update
  <2>3. x \in Act /\ r \in Row /\ CopyTells(task[a])
    BY <1>0, <1>1, TaskFacts DEF AuditInv
  <2>4. PICK t : t = IF x = "none" THEN Idle ELSE At("audit", c, x)
    OBVIOUS
  <2>5. /\ t \in Task \cup {Idle} /\ Become(a, t) /\ (t = Idle \/ (t.at = "audit" /\ t.config = c))
    BY <2>2, <2>3, <2>4, AtFacts
  <2>6. t # Idle => t.act = x
    BY <2>4 DEF At
  <2>7. Store(a, r) /\ Live(c)
    BY <2>1 DEF UpdateRow
  <2>8. /\ \A b \in Actor : CopyTells(task[b])'
        /\ row'[c] = r /\ \A d \in Config : d # c => row'[d] = row[d]
    BY <1>1, <2>3, <2>5, <2>7, CopiesAfterStore
  <2>9. task'[a] = t /\ \A b \in Actor : b # a => task'[b] = task[b]
    BY <1>0, <2>5, BecomeFacts
  <2>10. /\ \A d \in Config : d # c => audit'[d] = audit[d]
         /\ audit'[c] # "unreliable" => audit'[c] = audit[c] /\ ~Misleads(a, c, task[a])
    BY <1>0, <2>1, <2>7 DEF Record, TypeOK
  <2>11. ASSUME audit'[c] # "unreliable" PROVE LogAgrees(c)'
    <3>1. audit[c] # "unreliable" /\ audit'[c] = audit[c] /\ ~Misleads(a, c, task[a])
      BY <2>10, <2>11
    <3>2. LogAgrees(c)
      BY DEF AuditInv
    <3>3. CASE x \in {"enabled", "disabled"}
      <4>1. Says(r.enabled) = x /\ Told(x) = x
        BY <1>1, <2>3, <3>3 DEF CopyTells, Told
      <4>2. ASSUME NEW b \in Actor, b # a, Tells(task[b], c)' PROVE Told(task'[b].act) = Says(r.enabled)
        <5>1. /\ task'[b] = task[b] /\ task[b].at = "audit" /\ task[b].config = c /\ task[b] # Idle
              /\ task[b].act \in {"created", "enabled", "disabled"}
          BY <2>9, <4>2 DEF Tells, Idle
        <5>2. task[b].act \in Outstanding(a, c)
          BY <4>2, <5>1 DEF Outstanding, Holders
        <5>3. ~((task[b].act = "disabled") = r.enabled)
          BY <3>1, <5>2 DEF Misleads
        <5>4. r.enabled \in BOOLEAN
          BY <2>3 DEF Row
        <5> QED BY <5>1, <5>3, <5>4 DEF Told, Says
      <4>3. t # Idle
        BY <2>3, <2>4, <3>3, AtFacts
      <4>4. Tells(task[a], c)' /\ task'[a].act = x
        BY <2>5, <2>6, <2>9, <3>3, <4>3 DEF Tells
      <4> HIDE DEF x, r
      <4> QED BY <2>8, <2>9, <4>1, <4>2, <4>4 DEF LogAgrees
    <3>4. CASE x \notin {"enabled", "disabled"}
      <4>1. Says(r.enabled) = Says(row[c].enabled)
        BY <1>1, <2>3, <3>1, <3>4 DEF CopyTells, Misleads
      <4>2. x = "none"
        BY <1>1, <2>3, <3>4 DEF CopyTells
      <4>3. ~Tells(task[a], c) /\ ~Tells(task[a], c)'
        BY <1>1, <2>5, <2>6, <2>9, <3>4, <4>2 DEF Tells, Idle
      <4>4. \A b \in Actor : Tells(task[b], c)' <=> Tells(task[b], c)
        BY <2>9, <4>3 DEF Tells
      <4>5. \A b \in Actor : Tells(task[b], c) => task'[b] = task[b]
        BY <2>9, <4>3
      <4> HIDE DEF x, r
      <4> QED BY <2>7, <2>8, <3>1, <3>2, <4>1, <4>4, <4>5 DEF LogAgrees
    <3> QED BY <3>3, <3>4
  <2>12. LogAgrees(c)'
    BY <2>11 DEF LogAgrees
  <2>13. \A d \in Config : d # c => LogAgrees(d)'
    BY <1>0, <1>1, <2>5, <2>8, <2>10, Others
  <2> QED BY <2>8, <2>12, <2>13 DEF AuditInv
<1> QED BY <1>2, <1>3

\* A goroutine is done, or goes on to a DELETE: the copies of the others stay.
LEMMA CopiesStay ==
    ASSUME TypeOK, AuditInv, NEW a \in Actor, NEW t \in Task \cup {Idle}, Become(a, t),
           t.at \in {"idle", "delete"}
    PROVE  \A b \in Actor : CopyTells(task[b])'
<1>1. task'[a] = t /\ \A b \in Actor : b # a => task'[b] = task[b]
    BY BecomeFacts
<1>2. ASSUME NEW b \in Actor, b # a PROVE CopyTells(task[b])'
    BY <1>1, <1>2 DEF AuditInv
<1>3. CopyTells(task[a])'
    BY <1>1 DEF CopyTells
<1> QED BY <1>2, <1>3

LEMMA RecordAuditInv ==
    ASSUME IInv, AuditInv, NEW a \in Actor, NEW c \in Config, CreateAudit(a, c)
    PROVE  AuditInv'
<1>0. TypeOK
    BY DEF IInv
<1>1. task[a] # Idle /\ task[a].at = "audit" /\ task[a].config = c /\ UNCHANGED <<row, stale>>
    BY DEF CreateAudit
<1> DEFINE x == task[a].act
<1>2. x \in Act
    BY <1>0, <1>1, TaskFacts
<1>3. PICK t : t = IF x = "deleted" THEN At("delete", c, x) ELSE Idle
    OBVIOUS
<1>4. t \in Task \cup {Idle} /\ Become(a, t) /\ (t = Idle \/ (t.at = "delete" /\ t.config = c))
    BY <1>2, <1>3, AtFacts DEF CreateAudit
<1>5. t.at \in {"idle", "delete"}
    BY <1>4 DEF Idle
<1>6. \A b \in Actor : CopyTells(task[b])'
    BY <1>0, <1>1, <1>4, <1>5, CopiesStay
<1>7. task'[a] = t /\ \A b \in Actor : b # a => task'[b] = task[b]
    BY <1>0, <1>4, BecomeFacts
<1>8. \A d \in Config : d # c => audit'[d] = audit[d]
    BY <1>0 DEF CreateAudit, Record, TypeOK
<1>9. ASSUME Live(c)', audit'[c] # "unreliable" PROVE LogAgrees(c)'
  <2>1. Live(c) /\ ~Tells(task[a], c)'
    BY <1>1, <1>5, <1>7, <1>9 DEF Live, Tells
  <2>2. /\ audit[c] # "unreliable"
        /\ audit'[c] = IF x \in {"created", "enabled"} THEN "enabled"
                       ELSE IF x = "disabled" THEN "disabled" ELSE audit[c]
    BY <1>0, <1>9, <2>1 DEF CreateAudit, Record, TypeOK
  <2>3. LogAgrees(c)
    BY DEF AuditInv
  <2>4. \A b \in Actor : Tells(task[b], c)' => b # a /\ Tells(task[b], c) /\ task'[b] = task[b]
    BY <1>7, <2>1 DEF Tells
  <2>5. \A b \in Actor : b # a /\ Tells(task[b], c) => Tells(task[b], c)'
    BY <1>7 DEF Tells
  <2>6. CASE x \in {"created", "enabled", "disabled"}
    <3>1. Tells(task[a], c) /\ audit'[c] = Told(x)
      BY <1>1, <2>2, <2>6 DEF Tells, Told
    <3>2. audit'[c] = Says(row[c].enabled)
      BY <2>1, <2>2, <2>3, <3>1 DEF LogAgrees
    <3> QED BY <1>1, <2>1, <2>2, <2>3, <2>4, <3>2 DEF LogAgrees
  <2>7. CASE x \notin {"created", "enabled", "disabled"}
    <3>1. ~Tells(task[a], c) /\ audit'[c] = audit[c]
      BY <2>2, <2>7 DEF Tells
    <3> QED BY <1>1, <2>1, <2>2, <2>3, <2>4, <2>5, <3>1 DEF LogAgrees
  <2> QED BY <2>6, <2>7
<1>10. LogAgrees(c)'
    BY <1>9 DEF LogAgrees
<1>11. \A d \in Config : d # c => LogAgrees(d)'
    BY <1>0, <1>1, <1>4, <1>8, Others
<1> QED BY <1>6, <1>10, <1>11 DEF AuditInv

LEMMA DeleteAuditInv ==
    ASSUME IInv, AuditInv, NEW a \in Actor, NEW c \in Config, Delete(a, c)
    PROVE  AuditInv'
<1>0. TypeOK
    BY DEF IInv
<1>1. /\ task[a] # Idle /\ task[a].config = c
      /\ Become(a, Idle) /\ stale' = stale \ {a}
    BY DEF Delete, Finish
<1>2. /\ \A d \in Config : d # c => audit'[d] = audit[d] /\ row'[d] = row[d]
      /\ \A d \in Config : row'[d] \in {row[d], Gone}
    BY <1>0 DEF Delete, DeleteRow, Record, TypeOK
<1>3. ~Live(c)' \/ audit'[c] = "unreliable"
    BY <1>0 DEF Delete, DeleteRow, Record, TypeOK, Live
<1>4. Idle.at = "idle"
    BY DEF Idle
<1>5. \A b \in Actor : CopyTells(task[b])'
    BY <1>0, <1>1, <1>2, <1>4, CopiesStay
<1>6. LogAgrees(c)'
    BY <1>3 DEF LogAgrees
<1>7. \A d \in Config : d # c => LogAgrees(d)'
    BY <1>0, <1>1, <1>2, Others
<1> QED BY <1>5, <1>6, <1>7 DEF AuditInv

LEMMA DeliveryAudit ==
    ASSUME IInv, AuditInv, NEW a \in Actor, NEW c \in Config,
           LoadWebhookConfigsForEvent(a, c) \/ NotifyIncomingEmail(a, c)
    PROVE  AuditInv'
<1>0. TypeOK
    BY DEF IInv
<1>1. CASE LoadWebhookConfigsForEvent(a, c)
  <2>1. /\ task[a] = Idle /\ Live(c) /\ row[c] \in Row /\ UNCHANGED <<row, audit, stale>>
    BY <1>0, <1>1, RowFacts DEF LoadWebhookConfigsForEvent, GetActiveByDomainID
  <2>2. PICK r \in CanAttemptDelivery(row[c]) : Become(a, Holding("deliver", c, "none", r))
    BY <1>1 DEF LoadWebhookConfigsForEvent, scanWebhookConfig
  <2>3. r \in Row /\ r.enabled = row[c].enabled
    BY <2>1, <2>2 DEF CanAttemptDelivery, Row
  <2>4. PICK t : t = Holding("deliver", c, "none", r)
    OBVIOUS
  <2>5. t \in Task /\ t.at = "deliver" /\ t.config = c /\ t.copy = r /\ t.act = "none"
    BY <2>3, <2>4, HoldingFacts, ActFacts DEF Act
  <2>6. CopyTells(t)
    BY <2>3, <2>5 DEF CopyTells
  <2>7. \A d \in Config : ~Tells(task[a], d) /\ ~Tells(t, d)
    BY <2>1, <2>5 DEF Tells, Idle
  <2> QED BY <1>0, <2>1, <2>2, <2>4, <2>5, <2>6, <2>7, QuietMoves
<1>2. CASE NotifyIncomingEmail(a, c)
  <2>1. /\ task[a] # Idle /\ task[a].at = "deliver" /\ task[a].config = c
        /\ UNCHANGED <<row, audit, stale>>
    BY <1>2 DEF NotifyIncomingEmail
  <2>2. /\ task[a] \in Task /\ task[a].copy \in Row /\ task[a].copy.breaker = "closed"
        /\ task[a].act = "none" /\ CopyTells(task[a])
    BY <1>0, <2>1, TaskFacts DEF IInv, Sound, AuditInv, CopyTells
  <2>3. CanAttemptDelivery(task[a].copy) \subseteq {task[a].copy}
    BY <2>2 DEF CanAttemptDelivery, Row
  <2>4. PICK success \in BOOLEAN : RecordWebhookResult(a, task[a].copy, success)
    BY <1>2, <2>3 DEF NotifyIncomingEmail, sendWebhookSyncWithConfig
  <2>5. PICK r : r = IF success THEN RecordSuccess(task[a].copy) ELSE RecordFailure(task[a].copy)
    OBVIOUS
  <2>6. r \in Row
    BY <2>2, <2>5, ResultFacts
  <2>7. r.enabled = task[a].copy.enabled
    BY <2>2, <2>5 DEF RecordSuccess, RecordFailure, Row
  <2>8. PICK t : t = [task[a] EXCEPT !.at = "write", !.copy = r]
    OBVIOUS
  <2>9. t \in Task /\ t.at = "write" /\ t.config = c /\ t.copy = r /\ t.act = "none"
    BY <2>1, <2>2, <2>6, <2>8 DEF Task
  <2>10. Become(a, t)
    BY <2>4, <2>5, <2>8 DEF RecordWebhookResult
  <2>11. CopyTells(t)
    BY <2>1, <2>2, <2>7, <2>9 DEF CopyTells
  <2>12. \A d \in Config : ~Tells(task[a], d) /\ ~Tells(t, d)
    BY <2>1, <2>9 DEF Tells
  <2> QED BY <1>0, <2>1, <2>9, <2>10, <2>11, <2>12, QuietMoves
<1> QED BY <1>1, <1>2

LEMMA NextAudit ==
    ASSUME IInv, AuditInv, [Next]_vars
    PROVE  AuditInv'
<1>1. ASSUME NEW a \in Actor, NEW u \in User, Request(a, u) PROVE AuditInv'
    BY <1>1, RequestAudit
<1>2. ASSUME NEW a \in Actor, NEW c \in Config, Step(a, c) PROVE AuditInv'
    BY <1>2, CreateAuditInv, UpdateAuditInv, RecordAuditInv, DeleteAuditInv, DeliveryAudit DEF Step
<1>3. CASE UNCHANGED vars
    BY <1>3 DEF vars, AuditInv, CopyTells, LogAgrees, Tells, Live
<1> QED BY <1>1, <1>2, <1>3 DEF Next

-----------------------------------------------------------------------------
(* Theorems.                                                               *)

LEMMA Inductive == Spec => []IInv
<1> QED BY InitHolds, NextHolds, PTL DEF Spec

\* Rows, copies and the audit log have their types, through every interleaving of
\* requests and deliveries that read a row whole and write it back later.
THEOREM TypeCorrect == Spec => []TypeOK
<1>1. IInv => TypeOK
    BY DEF IInv
<1> QED BY <1>1, Inductive, PTL

\* No two configurations of a domain ever share a name: the constraint of the table
\* makes up for the duplicate check that CreateWebhookConfiguration makes too early.
THEOREM NamesStayUnique == Spec => []NamesUnique
<1>1. IInv => NamesUnique
    BY DEF IInv
<1> QED BY <1>1, Inductive, PTL

\* The recovery of a breaker through the half-open state is never begun.
THEOREM RecoveryIsDead == Spec => []NeverHalfOpen
<1>1. IInv => NeverHalfOpen
    BY DEF IInv, NeverHalfOpen, RowsSound, Sound
<1> QED BY <1>1, Inductive, PTL

\* While no request is between its statement and its record, the audit log tells
\* whether a configuration is enabled, however many requests and deliveries overlap,
\* unless one of the causes that AuditTellsEnabled names has made it unreliable.
THEOREM LogTellsEnabled == Spec => []AuditTellsEnabled
<1>1. ASSUME IInv, AuditInv PROVE AuditTellsEnabled
  <2> SUFFICES ASSUME NEW c \in Config, Live(c), audit[c] # "unreliable",
                      \A a \in Holders(c) : task[a].at # "audit" \/ task[a].act \in {"deleted", "tested"}
               PROVE  audit[c] = Says(row[c].enabled)
    BY DEF AuditTellsEnabled
  <2>1. \A a \in Actor : ~Tells(task[a], c)
    BY DEF Tells, Holders, Idle
  <2> QED BY <1>1, <2>1 DEF AuditInv, LogAgrees, Says
<1> QED BY <1>1, Inductive, InitAudit, NextAudit, PTL DEF Spec

\* Once a breaker has opened, nothing but a deletion or a stale whole-row write closes it.
THEOREM OpenBreakersStay == Spec => OpenIsLeftOnlyByStaleWrite
<1>1. ASSUME IInv, [Next]_vars,
             NEW c \in Config, Live(c), row[c].breaker = "open"
      PROVE  \/ row'[c] = Gone
             \/ row'[c].breaker = "open"
             \/ \E a \in stale : task[a].config = c /\ task[a].at = "write"
  <2>1. CASE UNCHANGED row
    BY <1>1, <2>1
  <2>2. ASSUME NEW a \in Actor, NEW d \in Config, Create(a, d) PROVE d # c \/ UNCHANGED row
    <3>1. row[d] = Absent \/ UNCHANGED row
      BY <1>1, <2>2 DEF Create, IInv, Sound
    <3> QED BY <1>1, <3>1 DEF Live
  <2>3. ASSUME NEW a \in Actor, NEW d \in Config, Create(a, d), d # c PROVE row'[c] = row[c]
    BY <1>1, <2>3 DEF Create, InsertRow, Store, IInv, TypeOK
  <2>4. ASSUME NEW a \in Actor, NEW d \in Config, Update(a, d), d # c PROVE row'[c] = row[c]
    BY <1>1, <2>4 DEF Update, UpdateRow, Store, IInv, TypeOK
  <2>5. ASSUME NEW a \in Actor, Update(a, c)
        PROVE  row'[c].breaker = "open" \/ (a \in stale /\ task[a].config = c /\ task[a].at = "write")
    <3>1. task[a].at = "write" /\ task[a].config = c
      BY <2>5 DEF Update
    <3>2. row'[c] = row[c] \/ row'[c] = task[a].copy
      BY <1>1, <2>5, <3>1 DEF Update, UpdateRow, Store, IInv, TypeOK
    <3> QED BY <1>1, <3>1, <3>2 DEF IInv, Fresh
  <2>6. ASSUME NEW a \in Actor, NEW d \in Config, Delete(a, d) PROVE row'[c] \in {row[c], Gone}
    BY <1>1, <2>6 DEF Delete, DeleteRow, IInv, TypeOK
  <2>7. ASSUME NEW a \in Actor, NEW d \in Config,
               CreateAudit(a, d) \/ LoadWebhookConfigsForEvent(a, d) \/ NotifyIncomingEmail(a, d)
        PROVE  UNCHANGED row
    BY <2>7 DEF CreateAudit, LoadWebhookConfigsForEvent, NotifyIncomingEmail
  <2>8. ASSUME NEW a \in Actor, NEW u \in User, Request(a, u) PROVE UNCHANGED row
    BY <2>8 DEF Request, CreateWebhookConfig, CreateConfigFromTemplate, CreateFromTemplate,
                CreateWebhookConfiguration, UpdateWebhookConfig, UpdateWebhookConfiguration,
                DeleteWebhookConfig, DeleteWebhookConfiguration, EnableWebhookConfig,
                EnableWebhookConfiguration, DisableWebhookConfig, DisableWebhookConfiguration,
                SetEnabled, TestWebhookConfig, TestWebhookConfiguration, GetWebhookHealth,
                CheckWebhookHealth
  <2>9. ASSUME NEW a \in Actor, NEW d \in Config, Step(a, d)
        PROVE  \/ row'[c] = Gone
               \/ row'[c].breaker = "open"
               \/ \E b \in Actor : b \in stale /\ task[b].config = c /\ task[b].at = "write"
    BY <1>1, <2>2, <2>3, <2>4, <2>5, <2>6, <2>7, <2>9 DEF Step
  <2>10. stale \subseteq Actor
    BY <1>1 DEF IInv, TypeOK
  <2> QED BY <1>1, <2>1, <2>8, <2>9, <2>10 DEF Next, vars
<1>2. IInv /\ [Next]_vars =>
        [\A c \in Config :
           Live(c) /\ row[c].breaker = "open"
             => \/ row'[c] = Gone
                \/ row'[c].breaker = "open"
                \/ \E a \in stale : task[a].config = c /\ task[a].at = "write"]_vars
    BY <1>1
<1> QED BY <1>2, Inductive, PTL DEF Spec, OpenIsLeftOnlyByStaleWrite

-----------------------------------------------------------------------------
(* Delivery: the queue, the retry queue, the workers and the retry         *)
(* processor of the asynchronous worker.                                   *)

W == INSTANCE WebhookWorker

\* The lines a job waits in.  What the retry processor has set aside is its slice, and
\* during a scan the part of it that has been kept.
Place == {"queue", "retryQueue", "slice", "rest"}
Scanning == processor.pc \in {"scan", "requeued"}
Lines ==
    [p \in Place |-> CASE p = "queue" -> queue
                       [] p = "retryQueue" -> retryQueue
                       [] p = "slice" -> IF Scanning THEN processor.kept ELSE held
                       [] p = "rest" -> IF Scanning THEN processor.rest ELSE <<>>]

On(L, p, j) == \E i \in DOMAIN L[p] : L[p][i] = j
Waits(L, j) == \E p \in Place : On(L, p, j)
Apart(L) ==
    \A p, q \in Place : \A i \in DOMAIN L[p], k \in DOMAIN L[q] : L[p][i] = L[q][k] => p = q /\ i = k

\* A worker has its job in hand until it has given it away or settled its fate.
Holds(w) == worker[w].pc \in {"send", "failed", "done", "abandon"}

InHands(j) == \E w \in Worker : Holds(w) /\ worker[w].job = j

\* The accepted jobs are those that wait or are in a worker's hands, and each of them is
\* in one place; a job that waits has an attempt left.
Located ==
    /\ Apart(Lines)
    /\ \A j \in Job : Waits(Lines, j) => fate[j] = "accepted" /\ attempts[j] < MaxRetries
    /\ \A w \in Worker : Holds(w) => fate[worker[w].job] = "accepted" /\ ~Waits(Lines, worker[w].job)
    /\ \A v, w \in Worker : Holds(v) /\ Holds(w) /\ worker[v].job = worker[w].job => v = w
    /\ \A j \in entering : fate[j] # "new"
    /\ \A j \in Job : fate[j] = "new" => attempts[j] = 0
    /\ \A j \in Job : fate[j] = "accepted" => Waits(Lines, j) \/ InHands(j)
    /\ Scanning => held = <<>>

Sending == {w \in Worker : worker[w].pc = "send"}
Scheduling == {w \in Worker : worker[w].pc = "scheduled"}
Lost == {j \in Job : fate[j] = "lost"}
Finite == IsFiniteSet(Sending) /\ IsFiniteSet(Scheduling) /\ IsFiniteSet(Lost) /\ IsFiniteSet(entering)

Waiting == Len(Lines["queue"]) + Len(Lines["retryQueue"]) + Len(Lines["slice"]) + Len(Lines["rest"])
Counted ==
    queueSize + pendingRetries =
       Waiting + Cardinality(Sending) + Cardinality(Lost) - Cardinality(entering) - Cardinality(Scheduling)

DeliveryInv == W!TypeOK /\ Located /\ Finite /\ Counted

-----------------------------------------------------------------------------
(* Lines.                                                                  *)

\* The first element of a line leaves it.
LEMMA Taken ==
    ASSUME NEW L \in [Place -> Seq(Job)], Apart(L), NEW p \in Place, L[p] # <<>>,
           NEW M \in [Place -> Seq(Job)], M[p] = Tail(L[p]), \A q \in Place \ {p} : M[q] = L[q]
    PROVE  /\ Apart(M)
           /\ Head(L[p]) \in Job /\ Waits(L, Head(L[p])) /\ ~Waits(M, Head(L[p]))
           /\ \A j : Waits(M, j) => Waits(L, j)
           /\ \A j : Waits(L, j) => Waits(M, j) \/ j = Head(L[p])
<1>1. /\ L[p] \in Seq(Job) /\ Head(L[p]) = L[p][1] /\ 1 \in DOMAIN L[p] /\ Head(L[p]) \in Job
      /\ Tail(L[p]) \in Seq(Job) 
      /\ \A i \in DOMAIN Tail(L[p]) : i + 1 \in DOMAIN L[p] /\ i + 1 # 1 /\ Tail(L[p])[i] = L[p][i + 1]
  OBVIOUS
<1>2. M[p] = Tail(L[p]) /\ \A q \in Place \ {p} : M[q] = L[q]
  OBVIOUS
<1> DEFINE at(q, i) == IF q = p THEN i + 1 ELSE i
<1>3. \A q \in Place : \A i \in DOMAIN M[q] :
         /\ at(q, i) \in DOMAIN L[q] /\ M[q][i] = L[q][at(q, i)] /\ <<q, at(q, i)>> # <<p, 1>>
  BY <1>1, <1>2
<1>4. \A q \in Place : \A i, k \in DOMAIN M[q] : at(q, i) = at(q, k) => i = k
  BY <1>2, <1>1
<1> HIDE DEF at
<1>5. Apart(M)
  BY <1>3, <1>4 DEF Apart
<1>6. Waits(L, Head(L[p])) /\ \A j : Waits(M, j) => Waits(L, j)
  BY <1>1, <1>3 DEF Waits, On
<1>7. ~Waits(M, Head(L[p]))
  BY <1>1, <1>3 DEF Waits, On, Apart
<1>8. ASSUME NEW j, Waits(L, j), j # Head(L[p]) PROVE Waits(M, j)
  <2>1. PICK q \in Place : \E i \in DOMAIN L[q] : L[q][i] = j
    BY <1>8 DEF Waits, On
  <2>2. PICK i \in DOMAIN L[q] : L[q][i] = j
    BY <2>1
  <2>3. CASE q = p
    <3>1. i \in 1..Len(L[p]) /\ i # 1
      BY <1>1, <1>8, <2>2, <2>3
    <3>2. i - 1 \in DOMAIN M[p] /\ M[p][i - 1] = L[p][i]
      BY <1>1, <1>2, <3>1
    <3> QED  BY <2>2, <2>3, <3>2 DEF Waits, On
  <2>4. CASE q # p
    BY <1>2, <2>2, <2>4 DEF Waits, On
  <2> QED  BY <2>3, <2>4
<1> QED  BY <1>1, <1>5, <1>6, <1>7, <1>8

\* An element that waits nowhere joins a line.
LEMMA Put ==
    ASSUME NEW L \in [Place -> Seq(Job)], Apart(L), NEW p \in Place, NEW j \in Job, ~Waits(L, j),
           NEW M \in [Place -> Seq(Job)], M[p] = Append(L[p], j), \A q \in Place \ {p} : M[q] = L[q]
    PROVE  /\ Apart(M)
           /\ \A k : Waits(M, k) <=> Waits(L, k) \/ k = j
<1>1. /\ L[p] \in Seq(Job) /\ Append(L[p], j) \in Seq(Job)
      /\ DOMAIN Append(L[p], j) = DOMAIN L[p] \cup {Len(L[p]) + 1}
      /\ \A i \in DOMAIN L[p] : Append(L[p], j)[i] = L[p][i]
      /\ Append(L[p], j)[Len(L[p]) + 1] = j
  OBVIOUS
<1>2. \A q \in Place : \A i \in DOMAIN M[q] :
         (i \in DOMAIN L[q] /\ M[q][i] = L[q][i]) \/ (q = p /\ i = Len(L[p]) + 1 /\ M[q][i] = j)
  BY <1>1
<1>3. /\ \A q \in Place : \A i \in DOMAIN L[q] : i \in DOMAIN M[q] /\ M[q][i] = L[q][i]
      /\ Len(L[p]) + 1 \in DOMAIN M[p] /\ M[p][Len(L[p]) + 1] = j
  BY <1>1
<1>4. Apart(M)
  BY <1>2 DEF Apart, Waits, On
<1>5. \A k : Waits(M, k) => Waits(L, k) \/ k = j
  BY <1>2 DEF Waits, On
<1>6. \A k : Waits(L, k) \/ k = j => Waits(M, k)
  BY <1>3 DEF Waits, On
<1> QED  BY <1>4, <1>5, <1>6

\* The first element of a line goes to the end of another.
LEMMA Moved ==
    ASSUME NEW L \in [Place -> Seq(Job)], Apart(L), NEW p \in Place, NEW q \in Place, p # q, L[p] # <<>>,
           NEW M \in [Place -> Seq(Job)], M[p] = Tail(L[p]), M[q] = Append(L[q], Head(L[p])), \A r \in Place \ {p, q} : M[r] = L[r]
    PROVE  /\ Apart(M)
           /\ \A j : Waits(M, j) <=> Waits(L, j)
<1>1. PICK N \in [Place -> Seq(Job)] : N = [L EXCEPT ![p] = Tail(@)]
  OBVIOUS
<1>2. N[p] = Tail(L[p]) /\ \A r \in Place \ {p} : N[r] = L[r]
  BY <1>1
<1>3. /\ Apart(N)
      /\ Head(L[p]) \in Job /\ Waits(L, Head(L[p])) /\ ~Waits(N, Head(L[p]))
      /\ \A j : Waits(N, j) => Waits(L, j)
      /\ \A j : Waits(L, j) => Waits(N, j) \/ j = Head(L[p])
  BY ONLY <1>2, L \in [Place -> Seq(Job)], Apart(L), p \in Place, L[p] # <<>>, N \in [Place -> Seq(Job)], Taken
<1>4. PICK h \in Job : h = Head(L[p])
  BY <1>3
<1>5. Apart(N) /\ Waits(L, h) /\ ~Waits(N, h) /\ \A j : Waits(L, j) <=> Waits(N, j) \/ j = h
  BY <1>3, <1>4
<1>6. M[q] = Append(N[q], h) /\ \A r \in Place \ {q} : M[r] = N[r]
  BY <1>2, <1>4
<1>7. /\ Apart(M)
      /\ \A k : Waits(M, k) <=> Waits(N, k) \/ k = h
  BY ONLY <1>5, <1>6, N \in [Place -> Seq(Job)], M \in [Place -> Seq(Job)], h \in Job, q \in Place, Put
<1> QED  BY <1>5, <1>7

\* A whole line takes the place of an empty one.
LEMMA Handed ==
    ASSUME NEW L \in [Place -> Seq(Job)], Apart(L), NEW p \in Place, NEW q \in Place, p # q, L[q] = <<>>,
           NEW M \in [Place -> Seq(Job)], M[p] = <<>>, M[q] = L[p], \A r \in Place \ {p, q} : M[r] = L[r]
    PROVE  /\ Apart(M)
           /\ \A j : Waits(M, j) <=> Waits(L, j)
<1> DEFINE from(r) == IF r = q THEN p ELSE r
<1>1. \A r \in Place : \A i \in DOMAIN M[r] : from(r) \in Place /\ i \in DOMAIN L[from(r)] /\ M[r][i] = L[from(r)][i]
  <2>1. DOMAIN M[p] = {}
    OBVIOUS
  <2> QED  BY <2>1
<1>2. \A r, s \in Place : M[r] # <<>> /\ M[s] # <<>> /\ from(r) = from(s) => r = s
  OBVIOUS
<1>3. \A r \in Place : \A i \in DOMAIN M[r] : M[r] # <<>>
  OBVIOUS
<1> HIDE DEF from
<1>4. Apart(M)
  BY <1>1, <1>2, <1>3 DEF Apart
<1>5. \A j : Waits(M, j) => Waits(L, j)
  BY <1>1 DEF Waits, On
<1>6. ASSUME NEW r \in Place, NEW i \in DOMAIN L[r] PROVE \E t \in Place : i \in DOMAIN M[t] /\ M[t][i] = L[r][i]
  <2>1. DOMAIN L[q] = {}
    OBVIOUS
  <2> QED  BY <1>6, <2>1
<1>7. \A j : Waits(L, j) => Waits(M, j)
  BY <1>6 DEF Waits, On
<1> QED  BY <1>4, <1>5, <1>7

\* A line is thrown away.
LEMMA Dropped ==
    ASSUME NEW L \in [Place -> Seq(Job)], Apart(L), NEW p \in Place,
           NEW M \in [Place -> Seq(Job)], M[p] = <<>>, \A r \in Place \ {p} : M[r] = L[r]
    PROVE  /\ Apart(M)
           /\ \A j : Waits(M, j) <=> Waits(L, j) /\ ~On(L, p, j)
<1>1. \A r \in Place : \A i \in DOMAIN M[r] : r # p /\ M[r] = L[r]
  OBVIOUS
<1>2. Apart(M)
  BY <1>1 DEF Apart
<1>3. \A j : Waits(M, j) => Waits(L, j) /\ ~On(L, p, j)
  BY <1>1 DEF Waits, On, Apart
<1>4. \A j : Waits(L, j) /\ ~On(L, p, j) => Waits(M, j)
  BY DEF Waits, On
<1> QED  BY <1>2, <1>3, <1>4

\* The lines, by name.
LEMMA LinesAre ==
    ASSUME W!TypeOK
    PROVE  /\ Lines \in [Place -> Seq(Job)]
           /\ Lines["queue"] = queue /\ Lines["retryQueue"] = retryQueue
           /\ Lines["slice"] = IF Scanning THEN processor.kept ELSE held
           /\ Lines["rest"] = IF Scanning THEN processor.rest ELSE <<>>
<1>1. /\ queue \in Seq(Job) /\ retryQueue \in Seq(Job) /\ held \in Seq(Job)
      /\ Scanning => processor.kept \in Seq(Job) /\ processor.rest \in Seq(Job)
  BY DEF W!TypeOK, Scanning, W!Off, W!Select
<1>2. <<>> \in Seq(Job)
  OBVIOUS
<1> QED  BY <1>1, <1>2 DEF Lines, Place

\* The same after a step.
LEMMA LinesAreNext ==
    ASSUME W!TypeOK'
    PROVE  /\ Lines' \in [Place -> Seq(Job)]
           /\ Lines'["queue"] = queue' /\ Lines'["retryQueue"] = retryQueue'
           /\ Lines'["slice"] = IF Scanning' THEN processor'.kept ELSE held'
           /\ Lines'["rest"] = IF Scanning' THEN processor'.rest ELSE <<>>
<1>1. /\ queue' \in Seq(Job) /\ retryQueue' \in Seq(Job) /\ held' \in Seq(Job)
      /\ Scanning' => processor'.kept \in Seq(Job) /\ processor'.rest \in Seq(Job)
  BY DEF W!TypeOK, Scanning, W!Off, W!Select
<1>2. <<>> \in Seq(Job)
  OBVIOUS
<1> QED  BY <1>1, <1>2 DEF Lines, Place

LEMMA SameLines ==
    ASSUME UNCHANGED <<queue, retryQueue, held, processor>>
    PROVE  Lines' = Lines
BY DEF Lines, Scanning

LEMMA Numbers ==
    ASSUME W!TypeOK, Finite
    PROVE  /\ Cardinality(Sending) \in Nat /\ Cardinality(Scheduling) \in Nat
           /\ Cardinality(Lost) \in Nat /\ Cardinality(entering) \in Nat
           /\ \A p \in Place : Len(Lines[p]) \in Nat
           /\ queueSize \in Int /\ pendingRetries \in Int
<1>1. \A p \in Place : Len(Lines[p]) \in Nat
  BY LinesAre
<1> QED  BY <1>1, FS_CardinalityType DEF Finite, W!TypeOK

\* The count of the lines is the one the workers' statistics are compared with.
LEMMA CountedIs ==
    ASSUME W!TypeOK, Finite, Scanning => held = <<>>
    PROVE  Counted <=> CountersDriftTogether
<1>1. /\ Cardinality({w \in Worker : worker[w].pc = "send"}) = Cardinality(Sending)
      /\ Cardinality({w \in Worker : worker[w].pc = "scheduled"}) = Cardinality(Scheduling)
      /\ Cardinality({j \in Job : fate[j] = "lost"}) = Cardinality(Lost)
  BY DEF Sending, Scheduling, Lost
<1>2. PICK a, b, c, d, e, f, g, h \in Int :
         /\ a = Len(Lines["queue"]) /\ b = Len(Lines["retryQueue"]) /\ c = Len(Lines["slice"])
         /\ d = Len(Lines["rest"]) /\ e = Cardinality(Sending) /\ f = Cardinality(Lost)
         /\ g = Cardinality(entering) /\ h = Cardinality(Scheduling)
  <2>1. /\ Len(Lines["queue"]) \in Int /\ Len(Lines["retryQueue"]) \in Int
        /\ Len(Lines["slice"]) \in Int /\ Len(Lines["rest"]) \in Int
    BY Numbers DEF Place
  <2>2. /\ Cardinality(Sending) \in Int /\ Cardinality(Lost) \in Int
        /\ Cardinality(entering) \in Int /\ Cardinality(Scheduling) \in Int
    BY Numbers
  <2> QED  BY <2>1, <2>2, Zenon
<1>3. Counted <=> queueSize + pendingRetries = a + b + c + d + e + f - g - h
  BY <1>2 DEF Counted, Waiting
<1>4. CASE Scanning
  <2>1. /\ Len(queue) = a /\ Len(retryQueue) = b /\ Len(held) = 0
        /\ Len(processor.kept) = c /\ Len(processor.rest) = d
    BY <1>2, <1>4, LinesAre
  <2>2. processor.pc \in {"scan", "requeued"}
    BY <1>4 DEF Scanning
  <2>3. CountersDriftTogether <=> queueSize + pendingRetries = a + b + 0 + (d + c) + e + f - g - h
    BY <1>1, <1>2, <2>1, <2>2 DEF CountersDriftTogether
  <2> QED  BY <1>3, <2>3
<1>5. CASE ~Scanning
  <2>1. /\ Len(queue) = a /\ Len(retryQueue) = b /\ Len(held) = c /\ d = 0
    BY <1>2, <1>5, LinesAre
  <2>2. ~(processor.pc \in {"scan", "requeued"})
    BY <1>5 DEF Scanning
  <2>3. CountersDriftTogether <=> queueSize + pendingRetries = a + b + c + 0 + e + f - g - h
    BY <1>1, <1>2, <2>1, <2>2 DEF CountersDriftTogether
  <2> QED  BY <1>3, <2>1, <2>3
<1> QED  BY <1>4, <1>5

-----------------------------------------------------------------------------
(* The workers and what they hold.                                         *)

LEMMA WorkerFacts ==
    ASSUME W!TypeOK, NEW w \in Worker
    PROVE  /\ worker[w].pc \in W!Busy <=> worker[w] \in [pc : W!Busy, job : Job]
           /\ worker[w].pc \in W!Busy => worker[w].job \in Job
           /\ Holds(w) => worker[w].pc \in W!Busy
  BY DEF W!TypeOK, W!Off, W!Select, W!Busy, Holds

LEMMA Changed ==
    ASSUME W!TypeOK, NEW w \in Worker, NEW r, worker' = [worker EXCEPT ![w] = r]
    PROVE  /\ worker'[w] = r /\ \A v \in Worker \ {w} : worker'[v] = worker[v]
           /\ \A v \in Worker \ {w} : Holds(v)' <=> Holds(v)
           /\ r \in {W!Off, W!Select} \cup [pc : W!Busy, job : Job]
                 => worker' \in [Worker -> {W!Off, W!Select} \cup [pc : W!Busy, job : Job]]
<1>1. worker \in [Worker -> {W!Off, W!Select} \cup [pc : W!Busy, job : Job]]
  BY DEF W!TypeOK
<1>2. worker'[w] = r /\ \A v \in Worker \ {w} : worker'[v] = worker[v]
  BY <1>1
<1> QED  BY <1>1, <1>2 DEF Holds

\* One worker's turn changes the sets of workers by that worker.
LEMMA Rostered ==
    ASSUME W!TypeOK, Finite, NEW w \in Worker, NEW r, worker' = [worker EXCEPT ![w] = r]
    PROVE  /\ IsFiniteSet(Sending') /\ IsFiniteSet(Scheduling')
           /\ Cardinality(Sending') = Cardinality(Sending) + (IF r.pc = "send" THEN 1 ELSE 0)
                                         - (IF worker[w].pc = "send" THEN 1 ELSE 0)
           /\ Cardinality(Scheduling') = Cardinality(Scheduling) + (IF r.pc = "scheduled" THEN 1 ELSE 0)
                                         - (IF worker[w].pc = "scheduled" THEN 1 ELSE 0)
<1>1. worker'[w] = r /\ \A v \in Worker \ {w} : worker'[v] = worker[v]
  BY Changed
<1>2. /\ Sending' = IF r.pc = "send" THEN Sending \cup {w} ELSE Sending \ {w}
      /\ Scheduling' = IF r.pc = "scheduled" THEN Scheduling \cup {w} ELSE Scheduling \ {w}
  BY <1>1 DEF Sending, Scheduling
<1>3. /\ w \in Sending <=> worker[w].pc = "send"
      /\ w \in Scheduling <=> worker[w].pc = "scheduled"
  BY DEF Sending, Scheduling
<1>4. IsFiniteSet(Sending') /\ IsFiniteSet(Scheduling')
  BY <1>2, FS_AddElement, FS_RemoveElement DEF Finite
<1>5. Cardinality(Sending') = Cardinality(Sending) + (IF r.pc = "send" THEN 1 ELSE 0)
                                 - (IF worker[w].pc = "send" THEN 1 ELSE 0)
  <2>1. /\ Cardinality(Sending \cup {w}) = IF w \in Sending THEN Cardinality(Sending) ELSE Cardinality(Sending) + 1
        /\ Cardinality(Sending \ {w}) = IF w \in Sending THEN Cardinality(Sending) - 1 ELSE Cardinality(Sending)
    BY FS_AddElement, FS_RemoveElement DEF Finite
  <2> QED  BY <1>2, <1>3, <2>1, Numbers
<1>6. Cardinality(Scheduling') = Cardinality(Scheduling) + (IF r.pc = "scheduled" THEN 1 ELSE 0)
                                 - (IF worker[w].pc = "scheduled" THEN 1 ELSE 0)
  <2>1. /\ Cardinality(Scheduling \cup {w}) = IF w \in Scheduling THEN Cardinality(Scheduling) ELSE Cardinality(Scheduling) + 1
        /\ Cardinality(Scheduling \ {w}) = IF w \in Scheduling THEN Cardinality(Scheduling) - 1 ELSE Cardinality(Scheduling)
    BY FS_AddElement, FS_RemoveElement DEF Finite
  <2> QED  BY <1>2, <1>3, <2>1, Numbers
<1> QED  BY <1>4, <1>5, <1>6

\* One line grows or shrinks.
LEMMA Longer ==
    ASSUME W!TypeOK, Finite, NEW p \in Place, NEW d \in Int, Len(Lines'[p]) = Len(Lines[p]) + d,
           \A q \in Place \ {p} : Len(Lines'[q]) = Len(Lines[q])
    PROVE  Waiting \in Int /\ Waiting' = Waiting + d
<1>1. PICK a, b, c, e \in Int :
         /\ a = Len(Lines["queue"]) /\ b = Len(Lines["retryQueue"])
         /\ c = Len(Lines["slice"]) /\ e = Len(Lines["rest"])
  <2>1. /\ Len(Lines["queue"]) \in Int /\ Len(Lines["retryQueue"]) \in Int
        /\ Len(Lines["slice"]) \in Int /\ Len(Lines["rest"]) \in Int
    BY Numbers DEF Place
  <2> QED  BY <2>1, Zenon
<1>2. Waiting = a + b + c + e
  BY <1>1 DEF Waiting
<1>3. CASE p = "queue"
  <2>1. Waiting' = (a + d) + b + c + e
    BY <1>1, <1>3 DEF Waiting, Place
  <2> QED  BY <1>2, <2>1
<1>4. CASE p = "retryQueue"
  <2>1. Waiting' = a + (b + d) + c + e
    BY <1>1, <1>4 DEF Waiting, Place
  <2> QED  BY <1>2, <2>1
<1>5. CASE p = "slice"
  <2>1. Waiting' = a + b + (c + d) + e
    BY <1>1, <1>5 DEF Waiting, Place
  <2> QED  BY <1>2, <2>1
<1>6. CASE p = "rest"
  <2>1. Waiting' = a + b + c + (e + d)
    BY <1>1, <1>6 DEF Waiting, Place
  <2> QED  BY <1>2, <2>1
<1> QED  BY <1>3, <1>4, <1>5, <1>6 DEF Place

\* What one line loses another gains.
LEMMA Balanced ==
    ASSUME W!TypeOK, Finite, NEW p \in Place, NEW q \in Place, p # q, NEW d \in Int,
           Len(Lines'[p]) = Len(Lines[p]) - d, Len(Lines'[q]) = Len(Lines[q]) + d,
           \A r \in Place \ {p, q} : Len(Lines'[r]) = Len(Lines[r])
    PROVE  Waiting' = Waiting
<1>1. PICK a, b, c, e \in Int :
         /\ a = Len(Lines["queue"]) /\ b = Len(Lines["retryQueue"])
         /\ c = Len(Lines["slice"]) /\ e = Len(Lines["rest"])
  <2>1. /\ Len(Lines["queue"]) \in Int /\ Len(Lines["retryQueue"]) \in Int
        /\ Len(Lines["slice"]) \in Int /\ Len(Lines["rest"]) \in Int
    BY Numbers DEF Place
  <2> QED  BY <2>1, Zenon
<1>2. Waiting = a + b + c + e
  BY <1>1 DEF Waiting
<1> DEFINE after(r, n) == IF r = p THEN n - d ELSE IF r = q THEN n + d ELSE n
<1>3. /\ Len(Lines'["queue"]) = after("queue", a) /\ Len(Lines'["retryQueue"]) = after("retryQueue", b)
      /\ Len(Lines'["slice"]) = after("slice", c) /\ Len(Lines'["rest"]) = after("rest", e)
  BY <1>1 DEF Place
<1>4. Waiting' = after("queue", a) + after("retryQueue", b) + after("slice", c) + after("rest", e)
  <2> HIDE DEF after
  <2> QED  BY <1>3 DEF Waiting
<1>5. after("queue", a) + after("retryQueue", b) + after("slice", c) + after("rest", e) = a + b + c + e
  BY DEF Place
<1> QED  BY <1>2, <1>4, <1>5

LEMMA WaitingIsInt ==
    ASSUME W!TypeOK, Finite
    PROVE  Waiting \in Int
<1>1. Place = {"queue", "retryQueue", "slice", "rest"}
  BY DEF Place
<1> QED  BY <1>1, Numbers DEF Waiting

\* The count after a step.
LEMMA Recount ==
    ASSUME W!TypeOK, Finite, Counted, W!TypeOK', Finite', NEW l \in Int, NEW s \in Int, NEW h \in Int, NEW t \in Int, NEW n \in Int,
           Waiting' = Waiting + l, Cardinality(Sending') = Cardinality(Sending) + s,
           Cardinality(Lost') = Cardinality(Lost) + t,
           Cardinality(entering') = Cardinality(entering) + n,
           Cardinality(Scheduling') = Cardinality(Scheduling) + h,
           queueSize' + pendingRetries' = queueSize + pendingRetries + l + s + t - n - h
    PROVE  Counted'
<1>1. Waiting \in Int
  BY WaitingIsInt
<1>2. queueSize' \in Int /\ pendingRetries' \in Int
  BY DEF W!TypeOK
<1>3. /\ queueSize \in Int /\ pendingRetries \in Int /\ Cardinality(Sending) \in Int /\ Cardinality(Scheduling) \in Int
      /\ Cardinality(Lost) \in Int /\ Cardinality(entering) \in Int
  BY Numbers
<1>4. PICK a, b, c, d, e, q, r, x, y \in Int :
         /\ a = Waiting /\ b = Cardinality(Sending) /\ c = Cardinality(Lost) /\ d = Cardinality(entering)
         /\ e = Cardinality(Scheduling) /\ q = queueSize /\ r = pendingRetries
         /\ x = queueSize' /\ y = pendingRetries'
  BY <1>1, <1>2, <1>3, Zenon
<1>5. q + r = a + b + c - d - e /\ x + y = q + r + l + s + t - n - h
  BY <1>4 DEF Counted
<1>6. Counted' <=> x + y = (a + l) + (b + s) + (c + t) - (d + n) - (e + h)
  BY <1>4 DEF Counted
<1> QED  BY <1>5, <1>6

\* A job with an attempt left makes one.
LEMMA OneMore ==
    ASSUME NEW a \in [Job -> 0..MaxRetries], MaxRetries \in Nat \ {0}, NEW j \in Job, a[j] < MaxRetries
    PROVE  [a EXCEPT ![j] = @ + 1] \in [Job -> 0..MaxRetries]
<1>1. a[j] + 1 \in 0..MaxRetries
  OBVIOUS
<1> QED  BY <1>1

\* A channel with room for one more.
LEMMA Room ==
    ASSUME NEW s \in Seq(Job), NEW j \in Job, BufferSize \in Nat, Len(s) < BufferSize
    PROVE  Append(s, j) \in Seq(Job) /\ Len(Append(s, j)) <= BufferSize
  OBVIOUS

\* Types: every step.
LEMMA DeliveryTypes ==
    ASSUME W!TypeOK, Located, MaxRetries \in Nat \ {0}, BufferSize \in Nat, W!Next \/ UNCHANGED W!vars
    PROVE  W!TypeOK'
<1> USE DEF W!TypeOK
<1>0. /\ {W!Off, W!Select} \subseteq {W!Off, W!Select} \cup [pc : W!Busy, job : Job]
      /\ \A p \in W!Busy, j \in Job : [pc |-> p, job |-> j] \in {W!Off, W!Select} \cup [pc : W!Busy, job : Job]
  BY DEF W!Busy
<1>1. CASE UNCHANGED W!vars
  BY <1>1 DEF W!vars
<1>2. CASE W!Start
  BY <1>2 DEF W!Start, W!chans, W!jobs, W!stats
<1>3. CASE W!Stop \/ W!StopReturns \/ W!StopTimesOut \/ W!Cancel
  BY <1>3 DEF W!Stop, W!StopReturns, W!StopTimesOut, W!Cancel, W!chans, W!jobs, W!stats
<1>4. ASSUME NEW j \in Job, W!EnqueueWebhook(j) PROVE W!TypeOK'
  <2>1. CASE Len(queue) < BufferSize
    <3>1. queue' \in Seq(Job) /\ Len(queue') <= BufferSize
      <4>1. queue' = Append(queue, j)
        BY <1>4, <2>1 DEF W!EnqueueWebhook
      <4> QED  BY <2>1, <4>1, Room
    <3> QED  BY <1>4, <2>1, <3>1 DEF W!EnqueueWebhook, W!ctl, W!stats
  <2>2. CASE ~(Len(queue) < BufferSize)
    BY <1>4, <2>2 DEF W!EnqueueWebhook, W!ctl, W!stats
  <2> QED  BY <2>1, <2>2
<1>5. ASSUME NEW j \in Job, W!Enqueued(j) \/ W!Tick(j) PROVE W!TypeOK'
  <2>1. CASE W!Enqueued(j)
    BY <2>1 DEF W!Enqueued, W!chans, W!jobs, W!ctl
  <2>2. CASE W!Tick(j)
    BY <2>2 DEF W!Tick, W!chans, W!ctl, W!stats
  <2> QED  BY <1>5, <2>1, <2>2
<1>6. ASSUME NEW w \in Worker, W!WorkerStep(w) PROVE W!TypeOK'
  <2>0. ASSUME NEW r \in {W!Off, W!Select} \cup [pc : W!Busy, job : Job], worker' = [worker EXCEPT ![w] = r]
        PROVE  worker' \in [Worker -> {W!Off, W!Select} \cup [pc : W!Busy, job : Job]]
    BY <2>0
  <2>1. ASSUME NEW p \in W!Busy, NEW j \in Job, W!Go(w, p, j)
        PROVE  worker' \in [Worker -> {W!Off, W!Select} \cup [pc : W!Busy, job : Job]]
    BY <1>0, <2>0, <2>1 DEF W!Go
  <2>2. worker[w].pc \in W!Busy => worker[w].job \in Job
    BY WorkerFacts
  <2>3. CASE W!WorkerQuits(w)
    <3>1. worker' \in [Worker -> {W!Off, W!Select} \cup [pc : W!Busy, job : Job]]
      BY <1>0, <2>0, <2>3 DEF W!WorkerQuits
    <3> QED  BY <2>3, <3>1 DEF W!WorkerQuits, W!chans, W!jobs, W!ctl, W!stats
  <2>4. CASE W!TakeJob(w)
    <3>1. Head(queue) \in Job /\ Tail(queue) \in Seq(Job) /\ Len(Tail(queue)) <= BufferSize
      BY <2>4 DEF W!TakeJob
    <3>2. attempts[Head(queue)] < MaxRetries
      <4>1. Lines["queue"] = queue /\ 1 \in DOMAIN queue /\ queue[1] = Head(queue) /\ "queue" \in Place
        BY <2>4, LinesAre DEF W!TakeJob, Place
      <4> QED  BY <3>1, <4>1 DEF Located, Waits, On
    <3>3. attempts' \in [Job -> 0..MaxRetries]
      <4>1. attempts \in [Job -> 0..MaxRetries] /\ attempts' = [attempts EXCEPT ![Head(queue)] = @ + 1]
        BY <2>4 DEF W!TakeJob, W!Begin
      <4>2. PICK j : j = Head(queue)
        OBVIOUS
      <4>3. j \in Job /\ attempts[j] < MaxRetries /\ attempts' = [attempts EXCEPT ![j] = @ + 1]
        BY <3>1, <3>2, <4>1, <4>2
      <4> QED  BY ONLY <4>1, <4>3, MaxRetries \in Nat \ {0}, OneMore
    <3>4. worker' \in [Worker -> {W!Off, W!Select} \cup [pc : W!Busy, job : Job]]
      BY <2>1, <2>4, <3>1 DEF W!TakeJob, W!Begin, W!Busy
    <3> QED  BY <2>4, <3>1, <3>3, <3>4 DEF W!TakeJob, W!ctl, W!stats
  <2>5. CASE W!TakeRetry(w)
    <3>1. Head(retryQueue) \in Job /\ Tail(retryQueue) \in Seq(Job) /\ Len(Tail(retryQueue)) <= BufferSize
      BY <2>5 DEF W!TakeRetry
    <3>2. attempts[Head(retryQueue)] < MaxRetries
      <4>1. Lines["retryQueue"] = retryQueue /\ 1 \in DOMAIN retryQueue /\ retryQueue[1] = Head(retryQueue) /\ "retryQueue" \in Place
        BY <2>5, LinesAre DEF W!TakeRetry, Place
      <4> QED  BY <3>1, <4>1 DEF Located, Waits, On
    <3>3. attempts' \in [Job -> 0..MaxRetries]
      <4>1. attempts \in [Job -> 0..MaxRetries] /\ attempts' = [attempts EXCEPT ![Head(retryQueue)] = @ + 1]
        BY <2>5 DEF W!TakeRetry, W!Begin
      <4>2. PICK j : j = Head(retryQueue)
        OBVIOUS
      <4>3. j \in Job /\ attempts[j] < MaxRetries /\ attempts' = [attempts EXCEPT ![j] = @ + 1]
        BY <3>1, <3>2, <4>1, <4>2
      <4> QED  BY ONLY <4>1, <4>3, MaxRetries \in Nat \ {0}, OneMore
    <3>4. worker' \in [Worker -> {W!Off, W!Select} \cup [pc : W!Busy, job : Job]]
      BY <2>1, <2>5, <3>1 DEF W!TakeRetry, W!Begin, W!Busy
    <3> QED  BY <2>5, <3>1, <3>3, <3>4 DEF W!TakeRetry, W!ctl, W!stats
  <2>6. CASE W!Send(w)
    <3>1. worker' \in [Worker -> {W!Off, W!Select} \cup [pc : W!Busy, job : Job]]
      BY <2>1, <2>2, <2>6 DEF W!Send, W!In, W!Busy
    <3> QED  BY <2>6, <3>1 DEF W!Send, W!chans, W!jobs, W!ctl, W!stats
  <2>7. CASE W!Finish(w)
    <3>1. worker' \in [Worker -> {W!Off, W!Select} \cup [pc : W!Busy, job : Job]]
      BY <1>0, <2>0, <2>7 DEF W!Finish
    <3> QED  BY <2>2, <2>7, <3>1 DEF W!Finish, W!chans, W!ctl, W!stats, W!In, W!Busy
  <2>8. CASE W!Retry(w)
    <3>1. worker[w].job \in Job
      BY <2>2, <2>8 DEF W!Retry, W!In, W!Busy
    <3>2. worker' \in [Worker -> {W!Off, W!Select} \cup [pc : W!Busy, job : Job]]
      BY <2>1, <2>8, <3>1 DEF W!Retry, W!Busy
    <3>3. due' \in [Job -> BOOLEAN]
      BY <2>8, <3>1 DEF W!Retry
    <3>4. retryQueue' \in Seq(Job) /\ Len(retryQueue') <= BufferSize
      <4>1. \/ retryQueue' = retryQueue
            \/ Len(retryQueue) < BufferSize /\ retryQueue' = Append(retryQueue, worker[w].job)
        BY <2>8 DEF W!Retry
      <4>2. retryQueue \in Seq(Job) /\ Len(retryQueue) <= BufferSize
        OBVIOUS
      <4> QED  BY ONLY <3>1, <4>1, <4>2, BufferSize \in Nat, Room
    <3> QED  BY <2>8, <3>2, <3>3, <3>4 DEF W!Retry, W!ctl, W!stats
  <2>9. CASE W!Scheduled(w)
    <3>1. worker' \in [Worker -> {W!Off, W!Select} \cup [pc : W!Busy, job : Job]]
      BY <1>0, <2>0, <2>9 DEF W!Scheduled
    <3> QED  BY <2>9, <3>1 DEF W!Scheduled, W!chans, W!jobs, W!ctl
  <2>10. CASE W!Abandon(w)
    <3>1. worker' \in [Worker -> {W!Off, W!Select} \cup [pc : W!Busy, job : Job]]
      BY <1>0, <2>0, <2>10 DEF W!Abandon
    <3> QED  BY <2>2, <2>10, <3>1 DEF W!Abandon, W!chans, W!ctl, W!stats, W!In, W!Busy
  <2> QED  BY <1>6, <2>3, <2>4, <2>5, <2>6, <2>7, <2>8, <2>9, <2>10 DEF W!WorkerStep
<1>7. ASSUME W!ProcessorStep PROVE W!TypeOK'
  <2>0. Scanning => /\ processor \in [pc : {"scan", "requeued"}, rest : Seq(Job), kept : Seq(Job)]
                    /\ processor.rest \in Seq(Job) /\ processor.kept \in Seq(Job)
    BY DEF Scanning, W!Off, W!Select
  <2>1. CASE W!ProcessorQuits
    BY <2>1 DEF W!ProcessorQuits, W!ctl, W!stats
  <2>2. CASE W!Hold
    <3>1. retryQueue # <<>> /\ held' = Append(held, Head(retryQueue)) /\ retryQueue' = Tail(retryQueue)
      BY <2>2 DEF W!Hold
    <3>2. Head(retryQueue) \in Job /\ Tail(retryQueue) \in Seq(Job) /\ Len(Tail(retryQueue)) <= BufferSize
      BY <3>1
    <3>3. held' \in Seq(Job)
      BY <3>1, <3>2
    <3>4. retryQueue' \in Seq(Job) /\ Len(retryQueue') <= BufferSize
      BY <3>1, <3>2
    <3> QED  BY <2>2, <3>3, <3>4 DEF W!Hold, W!jobs, W!ctl, W!stats
  <2>3. CASE W!Scan
    BY <2>3 DEF W!Scan, W!jobs, W!ctl, W!stats
  <2>4. CASE W!ScanOne
    <3>1. Scanning /\ processor.rest # <<>>
      BY <2>4 DEF W!ScanOne, Scanning
    <3>2. PICK j : j = Head(processor.rest)
      OBVIOUS
    <3>3. j \in Job /\ Tail(processor.rest) \in Seq(Job) /\ Append(processor.kept, j) \in Seq(Job)
      BY <2>0, <3>1, <3>2
    <3>4. processor' \in [pc : {"scan", "requeued"}, rest : Seq(Job), kept : Seq(Job)]
      BY <2>0, <2>4, <3>1, <3>2, <3>3 DEF W!ScanOne
    <3>5. queue' \in Seq(Job) /\ Len(queue') <= BufferSize
      <4>1. \/ queue' = queue
            \/ Len(queue) < BufferSize /\ queue' = Append(queue, j)
        BY <2>4, <3>2 DEF W!ScanOne
      <4>2. queue \in Seq(Job) /\ Len(queue) <= BufferSize
        OBVIOUS
      <4> QED  BY ONLY <3>3, <4>1, <4>2, BufferSize \in Nat, Room
    <3> QED  BY <2>4, <3>4, <3>5 DEF W!ScanOne, W!jobs, W!ctl, W!stats
  <2>5. CASE W!Requeued
    <3>1. processor' \in [pc : {"scan", "requeued"}, rest : Seq(Job), kept : Seq(Job)]
      BY <2>0, <2>5 DEF W!Requeued, Scanning
    <3>2. queueSize' \in Int /\ pendingRetries' \in Int
      BY <2>5 DEF W!Requeued
    <3> QED  BY <2>5, <3>1, <3>2 DEF W!Requeued, W!chans, W!jobs, W!ctl
  <2>6. CASE W!ScanEnds
    BY <2>0, <2>6 DEF W!ScanEnds, Scanning, W!jobs, W!ctl, W!stats
  <2> QED  BY <1>7, <2>1, <2>2, <2>3, <2>4, <2>5, <2>6 DEF W!ProcessorStep
<1> QED  BY <1>1, <1>2, <1>3, <1>4, <1>5, <1>6, <1>7 DEF W!Next

-----------------------------------------------------------------------------
(* Each step keeps every job in one place, and the count right.            *)

\* A step in which no job gets to a new place and no worker gets one.
LEMMA NothingMoves ==
    ASSUME W!TypeOK, Located, Apart(Lines'), \A j : Waits(Lines', j) <=> Waits(Lines, j),
           UNCHANGED <<fate, attempts, entering>>, Scanning' => held' = <<>>,
           \A w \in Worker : /\ Holds(w)' <=> Holds(w)
                             /\ Holds(w) => worker'[w].job = worker[w].job
    PROVE  Located'
<1>1. \A j \in Job : Waits(Lines', j) => fate'[j] = "accepted" /\ attempts'[j] < MaxRetries
  BY DEF Located
<1>2. \A w \in Worker : Holds(w)' => fate'[worker'[w].job] = "accepted" /\ ~Waits(Lines', worker'[w].job)
  BY DEF Located
<1>3. \A v, w \in Worker : Holds(v)' /\ Holds(w)' /\ worker'[v].job = worker'[w].job => v = w
  BY DEF Located
<1>4. (\A j \in entering : fate[j] # "new")' /\ (\A j \in Job : fate[j] = "new" => attempts[j] = 0)'
  BY DEF Located
<1>5. (\A j \in Job : fate[j] = "accepted" => Waits(Lines, j) \/ InHands(j))'
  BY DEF Located, InHands
<1> QED  BY <1>1, <1>2, <1>3, <1>4, <1>5 DEF Located

\* A step that touches no place, no worker and no counter.
LEMMA DeliveryRests ==
    ASSUME DeliveryInv, W!TypeOK',
           UNCHANGED <<queue, retryQueue, held, attempts, worker, processor, entering, fate,
                       queueSize, pendingRetries>>
    PROVE  DeliveryInv'
<1>1. Lines' = Lines
  BY SameLines
<1>2. Located'
  BY <1>1, NothingMoves DEF DeliveryInv, Located, Holds, Scanning
<1>3. /\ Sending' = Sending /\ Scheduling' = Scheduling /\ Lost' = Lost
      /\ Waiting' = Waiting
  BY <1>1 DEF Sending, Scheduling, Lost, Waiting
<1>4. Finite' /\ Counted'
  BY <1>3 DEF DeliveryInv, Finite, Counted
<1> QED  BY <1>2, <1>4 DEF DeliveryInv

\* A worker's turn that changes neither the lines nor the job it has in hand, if any.
LEMMA WorkerTurns ==
    ASSUME DeliveryInv, W!TypeOK', NEW w \in Worker, NEW r, worker' = [worker EXCEPT ![w] = r],
           r.pc \in {"send", "failed", "done", "abandon"} <=> Holds(w), Holds(w) => r.job = worker[w].job,
           UNCHANGED <<queue, retryQueue, held, processor, entering, fate, attempts>>
    PROVE  Located' /\ Finite' /\ Waiting' = Waiting /\ Cardinality(Lost') = Cardinality(Lost)
<1>0. W!TypeOK /\ Located /\ Finite
  BY DEF DeliveryInv
<1>1. Lines' = Lines
  BY SameLines
<1>2. worker'[w] = r /\ \A v \in Worker \ {w} : worker'[v] = worker[v]
  BY <1>0, Changed
<1>3. \A v \in Worker : /\ Holds(v)' <=> Holds(v)
                        /\ Holds(v) => worker'[v].job = worker[v].job
  BY <1>2 DEF Holds
<1>4. Located'
  BY <1>0, <1>1, <1>3, NothingMoves DEF Located, Scanning
<1>5. Waiting' = Waiting /\ Lost' = Lost
  BY <1>1 DEF Waiting, Lost
<1>6. Finite'
  BY <1>0, <1>5, Rostered DEF Finite
<1> QED  BY <1>4, <1>5, <1>6

\* Start: every goroutine begins, and none has a job.
LEMMA StartCounts ==
    ASSUME DeliveryInv, W!TypeOK', W!Start
    PROVE  DeliveryInv'
<1>0. W!TypeOK /\ Located /\ Finite /\ Counted
  BY DEF DeliveryInv
<1>1. /\ processor = W!Off /\ processor' = W!Select
      /\ \A w \in Worker : worker[w] = W!Off /\ worker'[w] = W!Select
      /\ UNCHANGED <<queue, retryQueue, held, attempts, entering, fate, queueSize, pendingRetries>>
  BY DEF W!Start, W!chans, W!jobs, W!stats
<1>2. ~Scanning /\ ~Scanning'
  BY <1>1 DEF Scanning, W!Off, W!Select
<1>3. Lines' = Lines
  BY <1>1, <1>2 DEF Lines
<1>4. Sending' = Sending /\ Scheduling' = Scheduling /\ Lost' = Lost
  BY <1>1 DEF Sending, Scheduling, Lost, W!Off, W!Select
<1>5. \A w \in Worker : ~Holds(w) /\ ~Holds(w)'
  BY <1>1 DEF Holds, W!Off, W!Select
<1>6. Located'
  BY <1>0, <1>1, <1>2, <1>3, <1>5, NothingMoves DEF Located
<1>7. Finite' /\ Counted'
  BY <1>0, <1>1, <1>3, <1>4 DEF Finite, Counted, Waiting
<1> QED  BY <1>6, <1>7 DEF DeliveryInv

\* EnqueueWebhook: the job joins the queue or is refused.
LEMMA EnqueueCounts ==
    ASSUME DeliveryInv, W!TypeOK', MaxRetries \in Nat \ {0}, NEW j \in Job, W!EnqueueWebhook(j)
    PROVE  DeliveryInv'
<1>0. W!TypeOK /\ Located /\ Finite /\ Counted
  BY DEF DeliveryInv
<1>1. /\ fate[j] = "new" /\ UNCHANGED <<retryQueue, held, attempts, worker, processor, queueSize, pendingRetries>>
      /\ \E f \in {"accepted", "refused"} : fate' = [fate EXCEPT ![j] = f]
  BY DEF W!EnqueueWebhook, W!stats
<1>2. /\ fate' \in [Job -> {"new", "accepted", "delivered", "abandoned", "refused", "lost"}]
      /\ fate'[j] \in {"accepted", "refused"} /\ \A k \in Job \ {j} : fate'[k] = fate[k]
  BY <1>0, <1>1 DEF W!TypeOK
<1>3. Sending' = Sending /\ Scheduling' = Scheduling /\ Lost' = Lost
  BY <1>1, <1>2 DEF Sending, Scheduling, Lost
<1>4. ~Waits(Lines, j) /\ attempts[j] < MaxRetries /\ j \notin entering
      /\ \A w \in Worker : Holds(w) => worker[w].job \in Job \ {j}
  BY <1>0, <1>1, WorkerFacts DEF Located
<1>5. ASSUME \A k : Waits(Lines', k) <=> Waits(Lines, k) \/ (k = j /\ fate'[j] = "accepted"),
             Apart(Lines'), entering' \subseteq entering \cup {j}
      PROVE  Located'
  <2>1. \A k \in Job : Waits(Lines', k) => fate'[k] = "accepted" /\ attempts'[k] < MaxRetries
    BY <1>0, <1>1, <1>2, <1>4, <1>5 DEF Located
  <2>2. \A w \in Worker : Holds(w)' => fate'[worker'[w].job] = "accepted" /\ ~Waits(Lines', worker'[w].job)
    <3>1. \A w \in Worker : Holds(w)' => Holds(w) /\ worker'[w].job = worker[w].job
      BY <1>1 DEF Holds
    <3> QED  BY <1>0, <1>2, <1>4, <1>5, <3>1 DEF Located
  <2>3. \A v, w \in Worker : Holds(v)' /\ Holds(w)' /\ worker'[v].job = worker'[w].job => v = w
    BY <1>0, <1>1 DEF Located, Holds
  <2>4. (\A k \in entering : fate[k] # "new")'
    <3>1. \A k \in entering : k \in Job /\ fate[k] # "new"
      BY <1>0 DEF Located, W!TypeOK
    <3> QED  BY <1>2, <1>5, <3>1
  <2>5. (\A k \in Job : fate[k] = "new" => attempts[k] = 0)' /\ (Scanning => held = <<>>)'
    BY <1>0, <1>1, <1>2 DEF Located, Scanning
  <2>6. (\A k \in Job : fate[k] = "accepted" => Waits(Lines, k) \/ InHands(k))'
    <3>1. \A k : InHands(k)' <=> InHands(k)
      BY <1>1 DEF InHands, Holds
    <3> QED  BY <1>0, <1>2, <1>5, <3>1 DEF Located
  <2> QED  BY <1>5, <2>1, <2>2, <2>3, <2>4, <2>5, <2>6 DEF Located
<1>6. CASE Len(queue) < BufferSize
  <2>1. queue' = Append(queue, j) /\ entering' = entering \cup {j} /\ fate'[j] = "accepted"
    BY <1>0, <1>6 DEF W!EnqueueWebhook, W!TypeOK
  <2>2. Lines' = [Lines EXCEPT !["queue"] = Append(@, j)]
    BY <1>1, <2>1 DEF Lines, Scanning, Place
  <2>3. Apart(Lines') /\ \A k : Waits(Lines', k) <=> Waits(Lines, k) \/ k = j
    <3>1. Lines \in [Place -> Seq(Job)] /\ Lines' \in [Place -> Seq(Job)] /\ Apart(Lines) /\ "queue" \in Place
      BY <1>0, LinesAre, LinesAreNext DEF Located, Place
    <3>2. Lines'["queue"] = Append(Lines["queue"], j) /\ \A q \in Place \ {"queue"} : Lines'[q] = Lines[q]
      BY <2>2, <3>1
    <3>3. ~Waits(Lines, j)
      BY <1>4
    <3> QED  BY ONLY <3>1, <3>2, <3>3, j \in Job, Put
  <2>4. Located'
    BY <1>5, <2>1, <2>3
  <2>5. IsFiniteSet(entering') /\ Cardinality(entering') = Cardinality(entering) + 1
    BY <1>0, <1>4, <2>1, FS_AddElement DEF Finite
  <2>6. Finite'
    BY <1>0, <1>3, <2>5 DEF Finite
  <2>7. Waiting' = Waiting + 1
    <3>1. /\ Len(Lines'["queue"]) = Len(Lines["queue"]) + 1
          /\ \A p \in Place \ {"queue"} : Lines'[p] = Lines[p]
      BY <1>0, <2>2, LinesAre DEF Place
    <3> QED  BY <1>0, <3>1, Longer DEF Place
  <2>8. Counted'
    <3>1. /\ Cardinality(Sending') = Cardinality(Sending) + 0 /\ Cardinality(Lost') = Cardinality(Lost) + 0
          /\ Cardinality(Scheduling') = Cardinality(Scheduling) + 0
          /\ queueSize' + pendingRetries' = queueSize + pendingRetries + 1 + 0 + 0 - 1 - 0
      BY <1>0, <1>1, <1>3, Numbers
    <3> QED  BY <1>0, <2>5, <2>6, <2>7, <3>1, Recount
  <2> QED  BY <2>4, <2>6, <2>8 DEF DeliveryInv
<1>7. CASE ~(Len(queue) < BufferSize)
  <2>1. queue' = queue /\ entering' = entering
    BY <1>7 DEF W!EnqueueWebhook
  <2>2. Lines' = Lines
    BY <1>1, <2>1, SameLines
  <2>0. fate'[j] = "refused"
    BY <1>0, <1>7 DEF W!EnqueueWebhook, W!TypeOK
  <2>3. Located'
    BY <1>0, <1>5, <2>0, <2>1, <2>2 DEF Located
  <2>4. Finite' /\ Counted'
    BY <1>0, <1>1, <1>3, <2>1, <2>2 DEF Finite, Counted, Waiting
  <2> QED  BY <2>3, <2>4 DEF DeliveryInv
<1> QED  BY <1>6, <1>7

\* Its updateStats.
LEMMA EnqueuedCounts ==
    ASSUME DeliveryInv, W!TypeOK', NEW j \in Job, W!Enqueued(j)
    PROVE  DeliveryInv'
<1>0. W!TypeOK /\ Located /\ Finite /\ Counted
  BY DEF DeliveryInv
<1>1. /\ j \in entering /\ entering' = entering \ {j} /\ queueSize' = queueSize + 1
      /\ UNCHANGED <<queue, retryQueue, held, attempts, worker, processor, fate, pendingRetries>>
  BY DEF W!Enqueued, W!chans, W!jobs
<1>2. Lines' = Lines
  BY <1>1, SameLines
<1>3. Located'
  BY <1>0, <1>1, <1>2 DEF Located, Holds, InHands, Scanning
<1>4. Sending' = Sending /\ Scheduling' = Scheduling /\ Lost' = Lost /\ Waiting' = Waiting
  BY <1>1, <1>2 DEF Sending, Scheduling, Lost, Waiting
<1>5. IsFiniteSet(entering') /\ Cardinality(entering') = Cardinality(entering) - 1
  BY <1>0, <1>1, FS_RemoveElement DEF Finite
<1>6. Finite'
  BY <1>0, <1>4, <1>5 DEF Finite
<1>7. Counted'
  <2>1. Waiting \in Int
    BY <1>0, Numbers DEF Waiting, Place
  <2>2. /\ Cardinality(Sending') = Cardinality(Sending) + 0 /\ Cardinality(Lost') = Cardinality(Lost) + 0
        /\ Cardinality(Scheduling') = Cardinality(Scheduling) + 0 /\ Waiting' = Waiting + 0
        /\ Cardinality(entering') = Cardinality(entering) + (-1)
        /\ queueSize' + pendingRetries' = queueSize + pendingRetries + 0 + 0 + 0 - (-1) - 0
    BY <1>0, <1>1, <1>4, <1>5, <2>1, Numbers
  <2>3. -1 \in Int
    OBVIOUS
  <2> QED  BY <1>0, <1>6, <2>2, <2>3, Recount
<1> QED  BY <1>3, <1>6, <1>7 DEF DeliveryInv

\* A worker that takes the first job of a line.
LEMMA Took ==
    ASSUME DeliveryInv, W!TypeOK', NEW w \in Worker, worker[w].pc = "select", NEW p \in Place,
           Lines[p] # <<>>, Lines'[p] = Tail(Lines[p]), \A q \in Place \ {p} : Lines'[q] = Lines[q],
           W!Begin(w, Head(Lines[p])), UNCHANGED <<entering, fate, queueSize, pendingRetries>>,
           Scanning' => held' = <<>>
    PROVE  DeliveryInv'
<1>0. W!TypeOK /\ Located /\ Finite /\ Counted
  BY DEF DeliveryInv
<1>1. PICK j : j = Head(Lines[p])
  OBVIOUS
<1>2. Lines \in [Place -> Seq(Job)] /\ Lines' \in [Place -> Seq(Job)] /\ Apart(Lines)
  BY <1>0, LinesAre, LinesAreNext DEF Located
<1>3. /\ Apart(Lines') /\ j \in Job /\ Waits(Lines, j) /\ ~Waits(Lines', j)
      /\ \A k : Waits(Lines', k) => Waits(Lines, k)
      /\ \A k : Waits(Lines, k) => Waits(Lines', k) \/ k = j
  <2>1. Lines[p] # <<>> /\ Lines'[p] = Tail(Lines[p]) /\ \A q \in Place \ {p} : Lines'[q] = Lines[q]
    OBVIOUS
  <2>2. /\ Apart(Lines')
        /\ Head(Lines[p]) \in Job /\ Waits(Lines, Head(Lines[p])) /\ ~Waits(Lines', Head(Lines[p]))
        /\ \A k : Waits(Lines', k) => Waits(Lines, k)
        /\ \A k : Waits(Lines, k) => Waits(Lines', k) \/ k = Head(Lines[p])
    BY ONLY <1>2, <2>1, p \in Place, Taken
  <2> QED  BY ONLY <1>1, <2>2
<1>4. /\ worker' = [worker EXCEPT ![w] = [pc |-> "send", job |-> j]]
      /\ attempts' = [attempts EXCEPT ![j] = @ + 1]
  BY <1>1 DEF W!Begin, W!Go
<1>5. /\ worker'[w] = [pc |-> "send", job |-> j] /\ \A v \in Worker \ {w} : worker'[v] = worker[v]
      /\ \A k \in Job \ {j} : attempts'[k] = attempts[k]
  BY <1>0, <1>3, <1>4, Changed DEF W!TypeOK
<1>6. fate[j] = "accepted"
  BY <1>0, <1>3 DEF Located
<1>7. \A v \in Worker : Holds(v) => worker[v].job # j
  BY <1>0, <1>3 DEF Located
<1>8. Located'
  <2>1. \A k \in Job : Waits(Lines', k) => fate'[k] = "accepted" /\ attempts'[k] < MaxRetries
    BY <1>0, <1>3, <1>5 DEF Located
  <2>2. \A v \in Worker : Holds(v)' => fate'[worker'[v].job] = "accepted" /\ ~Waits(Lines', worker'[v].job)
    BY <1>0, <1>3, <1>5, <1>6 DEF Located, Holds
  <2>3. \A u, v \in Worker : Holds(u)' /\ Holds(v)' /\ worker'[u].job = worker'[v].job => u = v
    BY <1>0, <1>5, <1>7 DEF Located, Holds
  <2>4. (\A k \in entering : fate[k] # "new")' /\ (\A k \in Job : fate[k] = "new" => attempts[k] = 0)'
    BY <1>0, <1>5, <1>6 DEF Located
  <2>5. (\A k \in Job : fate[k] = "accepted" => Waits(Lines, k) \/ InHands(k))'
    <3>1. InHands(j)' /\ \A k : InHands(k) => InHands(k)'
      BY <1>5 DEF InHands, Holds
    <3> QED  BY <1>0, <1>3, <3>1 DEF Located
  <2> QED  BY <1>3, <2>1, <2>2, <2>3, <2>4, <2>5 DEF Located
<1>9. /\ IsFiniteSet(Sending') /\ IsFiniteSet(Scheduling')
      /\ Cardinality(Sending') = Cardinality(Sending) + 1 - 0
      /\ Cardinality(Scheduling') = Cardinality(Scheduling) + 0 - 0
  <2>1. PICK r : r = [pc |-> "send", job |-> j]
    OBVIOUS
  <2>2. r.pc = "send" /\ worker' = [worker EXCEPT ![w] = r]
    BY <1>4, <2>1
  <2> QED  BY <1>0, <2>2, Rostered
<1>10. Lost' = Lost /\ Finite'
  BY <1>0, <1>9 DEF Lost, Finite
<1>11. Waiting \in Int /\ Waiting' = Waiting + (-1)
  <2>1. Len(Lines'[p]) = Len(Lines[p]) + (-1)
    BY <1>2
  <2>2. -1 \in Int
    OBVIOUS
  <2> QED  BY <1>0, <2>1, <2>2, Longer
<1>12. Counted'
  <2>1. /\ Cardinality(Sending') = Cardinality(Sending) + 1 /\ Cardinality(Lost') = Cardinality(Lost) + 0
        /\ Cardinality(Scheduling') = Cardinality(Scheduling) + 0
        /\ Cardinality(entering') = Cardinality(entering) + 0
        /\ queueSize' + pendingRetries' = queueSize + pendingRetries + (-1) + 1 + 0 - 0 - 0
    BY <1>0, <1>9, <1>10, Numbers
  <2>2. -1 \in Int
    OBVIOUS
  <2> QED  BY <1>0, <1>10, <1>11, <2>1, <2>2, Recount
<1> QED  BY <1>8, <1>10, <1>12 DEF DeliveryInv

\* A worker that has settled the fate of its job.
LEMMA Settled ==
    ASSUME DeliveryInv, W!TypeOK', NEW w \in Worker, worker[w].pc \in {"done", "abandon"},
           worker' = [worker EXCEPT ![w] = W!Select],
           NEW f \in {"delivered", "abandoned"}, fate' = [fate EXCEPT ![worker[w].job] = f],
           UNCHANGED <<queue, retryQueue, held, attempts, processor, entering, queueSize, pendingRetries>>
    PROVE  DeliveryInv'
<1>0. W!TypeOK /\ Located /\ Finite /\ Counted
  BY DEF DeliveryInv
<1>1. PICK j : j = worker[w].job
  OBVIOUS
<1>2. j \in Job /\ Holds(w) /\ fate[j] = "accepted" /\ ~Waits(Lines, j)
  BY <1>0, <1>1, WorkerFacts DEF Located, Holds
<1>3. Lines' = Lines
  BY SameLines
<1>4. /\ worker'[w] = W!Select /\ \A v \in Worker \ {w} : worker'[v] = worker[v]
      /\ fate'[j] = f /\ \A k \in Job \ {j} : fate'[k] = fate[k]
  BY <1>0, <1>1, <1>2, Changed DEF W!TypeOK
<1>5. ~Holds(w)' /\ \A v \in Worker : Holds(v)' => v # w /\ Holds(v) /\ worker'[v].job = worker[v].job
  BY <1>4 DEF Holds, W!Select
<1>6. \A v \in Worker : Holds(v)' => worker[v].job \in Job \ {j}
  BY <1>0, <1>1, <1>2, <1>5, WorkerFacts DEF Located
<1>7. Located'
  <2>1. \A k \in Job : Waits(Lines', k) => fate'[k] = "accepted" /\ attempts'[k] < MaxRetries
    BY <1>0, <1>2, <1>3, <1>4 DEF Located
  <2>2. \A v \in Worker : Holds(v)' => fate'[worker'[v].job] = "accepted" /\ ~Waits(Lines', worker'[v].job)
    BY <1>0, <1>3, <1>4, <1>5, <1>6 DEF Located
  <2>3. \A u, v \in Worker : Holds(u)' /\ Holds(v)' /\ worker'[u].job = worker'[v].job => u = v
    BY <1>0, <1>5 DEF Located
  <2>4. (\A k \in entering : fate[k] # "new")' /\ (\A k \in Job : fate[k] = "new" => attempts[k] = 0)'
    BY <1>0, <1>4 DEF Located, W!TypeOK
  <2>5. Apart(Lines') /\ (Scanning => held = <<>>)'
    BY <1>0, <1>3 DEF Located, Scanning
  <2>6. (\A k \in Job : fate[k] = "accepted" => Waits(Lines, k) \/ InHands(k))'
    <3>1. \A k : InHands(k) /\ k # j => InHands(k)'
      BY <1>1, <1>4 DEF InHands, Holds
    <3> QED  BY <1>0, <1>3, <1>4, <3>1 DEF Located
  <2> QED  BY <2>1, <2>2, <2>3, <2>4, <2>5, <2>6 DEF Located
<1>8. Lost' = Lost
  BY <1>2, <1>4 DEF Lost
<1>9. PICK r : r = W!Select
  OBVIOUS
<1>10. /\ IsFiniteSet(Sending') /\ IsFiniteSet(Scheduling')
       /\ Cardinality(Sending') = Cardinality(Sending)
       /\ Cardinality(Scheduling') = Cardinality(Scheduling)
  <2>1. r.pc = "select" /\ worker' = [worker EXCEPT ![w] = r]
    BY <1>9 DEF W!Select
  <2>2. /\ IsFiniteSet(Sending') /\ IsFiniteSet(Scheduling')
        /\ Cardinality(Sending') = Cardinality(Sending) + 0 - 0
        /\ Cardinality(Scheduling') = Cardinality(Scheduling) + 0 - 0
    BY <1>0, <2>1, Rostered
  <2> QED  BY <1>0, <2>2, Numbers
<1>11. Finite'
  BY <1>0, <1>8, <1>10 DEF Finite
<1>12. Counted'
  BY <1>0, <1>3, <1>8, <1>10 DEF Counted, Waiting
<1> QED  BY <1>7, <1>11, <1>12 DEF DeliveryInv

\* What a worker does.
LEMMA WorkerCounts ==
    ASSUME DeliveryInv, W!TypeOK', NEW w \in Worker, W!WorkerStep(w)
    PROVE  DeliveryInv'
<1>0. W!TypeOK /\ Located /\ Finite /\ Counted
  BY DEF DeliveryInv
<1>1. CASE W!WorkerQuits(w)
  <2>1. PICK r : r = W!Off
    OBVIOUS
  <2>2. /\ r.pc = "off" /\ worker' = [worker EXCEPT ![w] = r] /\ worker[w].pc = "select"
        /\ UNCHANGED <<queue, retryQueue, held, attempts, processor, entering, fate, queueSize, pendingRetries>>
    BY <1>1, <2>1 DEF W!WorkerQuits, W!In, W!Off, W!chans, W!jobs, W!stats
  <2>3. Located' /\ Finite' /\ Waiting' = Waiting /\ Cardinality(Lost') = Cardinality(Lost)
    BY <2>2, WorkerTurns DEF Holds
  <2>4. /\ Cardinality(Sending') = Cardinality(Sending) + 0 - 0
        /\ Cardinality(Scheduling') = Cardinality(Scheduling) + 0 - 0
    BY <1>0, <2>2, Rostered
  <2>5. Cardinality(Sending') = Cardinality(Sending) /\ Cardinality(Scheduling') = Cardinality(Scheduling)
    BY <1>0, <2>4, Numbers
  <2> QED  BY <1>0, <2>2, <2>3, <2>5 DEF DeliveryInv, Counted
<1>2. CASE W!TakeJob(w)
  <2>1. /\ queue # <<>> /\ queue' = Tail(queue) /\ W!Begin(w, Head(queue)) /\ worker[w].pc = "select"
        /\ UNCHANGED <<retryQueue, held, processor, entering, fate, queueSize, pendingRetries>>
    BY <1>2 DEF W!TakeJob, W!In, W!stats
  <2>2. /\ Lines["queue"] = queue /\ Lines'["queue"] = queue'
        /\ \A q \in Place \ {"queue"} : Lines'[q] = Lines[q]
        /\ Scanning' => held' = <<>> /\ "queue" \in Place
    BY <1>0, <2>1, LinesAre, LinesAreNext DEF Place, Scanning, Located
  <2>3. "queue" \in Place
    BY DEF Place
  <2> QED  BY <2>1, <2>2, <2>3, Took
<1>3. CASE W!TakeRetry(w)
  <2>1. /\ retryQueue # <<>> /\ retryQueue' = Tail(retryQueue) /\ W!Begin(w, Head(retryQueue)) /\ worker[w].pc = "select"
        /\ UNCHANGED <<queue, held, processor, entering, fate, queueSize, pendingRetries>>
    BY <1>3 DEF W!TakeRetry, W!In, W!stats
  <2>2. /\ Lines["retryQueue"] = retryQueue /\ Lines'["retryQueue"] = retryQueue'
        /\ \A q \in Place \ {"retryQueue"} : Lines'[q] = Lines[q]
        /\ Scanning' => held' = <<>>
    BY <1>0, <2>1, LinesAre, LinesAreNext DEF Place, Scanning, Located
  <2>3. "retryQueue" \in Place
    BY DEF Place
  <2> QED  BY <2>1, <2>2, <2>3, Took
<1>4. CASE W!Send(w)
  <2>1. /\ worker[w].pc = "send" /\ queueSize' = queueSize - 1
        /\ UNCHANGED <<queue, retryQueue, held, attempts, processor, entering, fate, pendingRetries>>
        /\ \E p \in {"done", "failed"} : worker' = [worker EXCEPT ![w] = [pc |-> p, job |-> worker[w].job]]
    BY <1>4 DEF W!Send, W!In, W!Go, W!chans, W!jobs
  <2>2. PICK r : r.pc \in {"done", "failed"} /\ r.job = worker[w].job /\ worker' = [worker EXCEPT ![w] = r]
    BY <2>1
  <2>3. Located' /\ Finite' /\ Waiting' = Waiting /\ Cardinality(Lost') = Cardinality(Lost)
    BY <2>1, <2>2, WorkerTurns DEF Holds
  <2>4. /\ Cardinality(Sending') = Cardinality(Sending) + 0 - 1
        /\ Cardinality(Scheduling') = Cardinality(Scheduling) + 0 - 0
    BY <1>0, <2>1, <2>2, Rostered
  <2>5. /\ Cardinality(Sending') = Cardinality(Sending) + (-1)
        /\ Cardinality(Scheduling') = Cardinality(Scheduling) + 0
        /\ Waiting' = Waiting + 0 /\ Cardinality(Lost') = Cardinality(Lost) + 0
        /\ Cardinality(entering') = Cardinality(entering) + 0
        /\ queueSize' + pendingRetries' = queueSize + pendingRetries + 0 + (-1) + 0 - 0 - 0
        /\ -1 \in Int
    BY <1>0, <2>1, <2>3, <2>4, Numbers, WaitingIsInt
  <2>6. Counted'
    BY <1>0, <2>3, <2>5, Recount
  <2> QED  BY <2>3, <2>6 DEF DeliveryInv
<1>5. CASE W!Finish(w)
  BY <1>5, Settled DEF W!Finish, W!In, W!chans, W!stats
<1>6. CASE W!Abandon(w)
  BY <1>6, Settled DEF W!Abandon, W!In, W!chans, W!stats
<1>7. CASE W!Scheduled(w)
  <2>1. PICK r : r = W!Select
    OBVIOUS
  <2>2. /\ r.pc = "select" /\ worker' = [worker EXCEPT ![w] = r] /\ worker[w].pc = "scheduled"
        /\ pendingRetries' = pendingRetries + 1
        /\ UNCHANGED <<queue, retryQueue, held, attempts, processor, entering, fate, queueSize>>
    BY <1>7, <2>1 DEF W!Scheduled, W!In, W!Select, W!chans, W!jobs
  <2>3. Located' /\ Finite' /\ Waiting' = Waiting /\ Cardinality(Lost') = Cardinality(Lost)
    BY <2>2, WorkerTurns DEF Holds
  <2>4. /\ Cardinality(Sending') = Cardinality(Sending) + 0 - 0
        /\ Cardinality(Scheduling') = Cardinality(Scheduling) + 0 - 1
    BY <1>0, <2>2, Rostered
  <2>5. /\ Cardinality(Sending') = Cardinality(Sending) + 0
        /\ Cardinality(Scheduling') = Cardinality(Scheduling) + (-1)
        /\ Waiting' = Waiting + 0 /\ Cardinality(Lost') = Cardinality(Lost) + 0
        /\ Cardinality(entering') = Cardinality(entering) + 0
        /\ queueSize' + pendingRetries' = queueSize + pendingRetries + 0 + 0 + 0 - 0 - (-1)
        /\ -1 \in Int
    BY <1>0, <2>2, <2>3, <2>4, Numbers, WaitingIsInt
  <2>6. Counted'
    BY <1>0, <2>3, <2>5, Recount
  <2> QED  BY <2>3, <2>6 DEF DeliveryInv
<1>8. CASE W!Retry(w)
  <2>1. PICK j : j = worker[w].job
    OBVIOUS
  <2>2. worker[w].pc = "failed" /\ UNCHANGED <<queue, held, attempts, processor, entering, fate, queueSize, pendingRetries>>
    BY <1>8 DEF W!Retry, W!In, W!stats
  <2>3. Holds(w) /\ j \in Job /\ fate[j] = "accepted" /\ ~Waits(Lines, j)
    BY <1>0, <2>1, <2>2, WorkerFacts DEF Holds, Located
  <2>4. CASE worker' = [worker EXCEPT ![w] = [pc |-> "abandon", job |-> j]] /\ retryQueue' = retryQueue
    <3>1. PICK r : r = [pc |-> "abandon", job |-> j]
      OBVIOUS
    <3>2. r.pc = "abandon" /\ r.job = worker[w].job /\ worker' = [worker EXCEPT ![w] = r]
      BY <2>1, <2>4, <3>1
    <3>3. Located' /\ Finite' /\ Waiting' = Waiting /\ Cardinality(Lost') = Cardinality(Lost)
      BY <2>2, <2>3, <2>4, <3>2, WorkerTurns
    <3>4. /\ Cardinality(Sending') = Cardinality(Sending) + 0 - 0
          /\ Cardinality(Scheduling') = Cardinality(Scheduling) + 0 - 0
      BY <1>0, <2>2, <3>2, Rostered
    <3>5. Cardinality(Sending') = Cardinality(Sending) /\ Cardinality(Scheduling') = Cardinality(Scheduling)
      BY <1>0, <3>4, Numbers
    <3> QED  BY <1>0, <2>2, <3>3, <3>5 DEF DeliveryInv, Counted
  <2>5. CASE /\ attempts[j] < MaxRetries /\ retryQueue' = Append(retryQueue, j)
             /\ worker' = [worker EXCEPT ![w] = [pc |-> "scheduled", job |-> j]]
    <3>1. PICK r : r = [pc |-> "scheduled", job |-> j]
      OBVIOUS
    <3>2. r.pc = "scheduled" /\ worker' = [worker EXCEPT ![w] = r]
      BY <2>5, <3>1
    <3>3. worker'[w] = r /\ \A v \in Worker \ {w} : worker'[v] = worker[v]
      BY <1>0, <3>2, Changed
    <3>4. /\ Lines["retryQueue"] = retryQueue /\ Lines'["retryQueue"] = retryQueue'
          /\ \A q \in Place \ {"retryQueue"} : Lines'[q] = Lines[q]
          /\ Scanning' => held' = <<>>
      BY <1>0, <2>2, LinesAre, LinesAreNext DEF Place, Scanning, Located
    <3>5. /\ Lines \in [Place -> Seq(Job)] /\ Lines' \in [Place -> Seq(Job)] /\ Apart(Lines)
          /\ "retryQueue" \in Place /\ ~Waits(Lines, j)
      BY <1>0, <2>3, LinesAre, LinesAreNext DEF Place, Located
    <3>6. Lines'["retryQueue"] = Append(Lines["retryQueue"], j)
      BY <2>5, <3>4
    <3>7. Apart(Lines') /\ \A k : Waits(Lines', k) <=> Waits(Lines, k) \/ k = j
      <4>1. j \in Job /\ \A q \in Place \ {"retryQueue"} : Lines'[q] = Lines[q]
        BY <2>3, <3>4
      <4> QED  BY ONLY <3>5, <3>6, <4>1, Put
    <3>8. ~Holds(w)' /\ \A v \in Worker : Holds(v)' => v # w /\ Holds(v) /\ worker'[v].job = worker[v].job
      BY <3>2, <3>3 DEF Holds
    <3>9. \A v \in Worker : Holds(v)' => worker[v].job # j
      BY <1>0, <2>1, <2>3, <3>8 DEF Located
    <3>10. Located'
      <4>1. \A k \in Job : Waits(Lines', k) => fate'[k] = "accepted" /\ attempts'[k] < MaxRetries
        BY <1>0, <2>2, <2>3, <2>5, <3>7 DEF Located
      <4>2. \A v \in Worker : Holds(v)' => fate'[worker'[v].job] = "accepted" /\ ~Waits(Lines', worker'[v].job)
        BY <1>0, <2>2, <3>7, <3>8, <3>9 DEF Located
      <4>3. \A u, v \in Worker : Holds(u)' /\ Holds(v)' /\ worker'[u].job = worker'[v].job => u = v
        BY <1>0, <3>8 DEF Located
      <4>4. (\A k \in entering : fate[k] # "new")' /\ (\A k \in Job : fate[k] = "new" => attempts[k] = 0)'
        BY <1>0, <2>2 DEF Located
      <4>5. (\A k \in Job : fate[k] = "accepted" => Waits(Lines, k) \/ InHands(k))'
        <5>1. \A k : InHands(k) /\ k # j => InHands(k)'
          BY <2>1, <3>3 DEF InHands, Holds
        <5> QED  BY <1>0, <2>2, <3>7, <5>1 DEF Located
      <4> QED  BY <3>4, <3>7, <4>1, <4>2, <4>3, <4>4, <4>5 DEF Located
    <3>11. Lost' = Lost
      BY <2>2 DEF Lost
    <3>12. /\ IsFiniteSet(Sending') /\ IsFiniteSet(Scheduling')
           /\ Cardinality(Sending') = Cardinality(Sending) + 0 - 0
           /\ Cardinality(Scheduling') = Cardinality(Scheduling) + 1 - 0
      BY <1>0, <2>2, <3>2, Rostered
    <3>13. Finite'
      BY <1>0, <2>2, <3>11, <3>12 DEF Finite
    <3>14. Waiting' = Waiting + 1
      <4>1. Len(Lines'["retryQueue"]) = Len(Lines["retryQueue"]) + 1
        BY <2>3, <3>5, <3>6
      <4> QED  BY <1>0, <3>4, <3>5, <4>1, Longer
    <3>15. /\ Cardinality(Sending') = Cardinality(Sending) + 0
           /\ Cardinality(Scheduling') = Cardinality(Scheduling) + 1
           /\ Cardinality(Lost') = Cardinality(Lost) + 0
           /\ Cardinality(entering') = Cardinality(entering) + 0
           /\ queueSize' + pendingRetries' = queueSize + pendingRetries + 1 + 0 + 0 - 0 - 1
      BY <1>0, <2>2, <3>11, <3>12, Numbers
    <3>16. Counted'
      BY <1>0, <3>13, <3>14, <3>15, Recount
    <3> QED  BY <3>10, <3>13, <3>16 DEF DeliveryInv
  <2> QED  BY <1>8, <2>1, <2>4, <2>5 DEF W!Retry, W!Go
<1> QED  BY <1>1, <1>2, <1>3, <1>4, <1>5, <1>6, <1>7, <1>8 DEF W!WorkerStep

\* The jobs of a line without repetitions are as many as it is long.
LEMMA LineSize ==
    ASSUME NEW s \in Seq(Job), \A i, k \in DOMAIN s : s[i] = s[k] => i = k,
           NEW S, S = {j \in Job : \E i \in DOMAIN s : s[i] = j}
    PROVE  IsFiniteSet(S) /\ Cardinality(S) = Len(s)
<1>1. Len(s) \in Nat /\ DOMAIN s = 1..Len(s) /\ s \in [1..Len(s) -> S]
  OBVIOUS
<1>2. IsFiniteSet(1..Len(s)) /\ Cardinality(1..Len(s)) = Len(s)
  <2>1. /\ IsFiniteSet(1..Len(s))
        /\ Cardinality(1..Len(s)) = IF 1 > Len(s) THEN 0 ELSE Len(s) - 1 + 1
    BY <1>1, FS_Interval
  <2> QED  BY <1>1, <2>1
<1>3. s \in Bijection(1..Len(s), S)
  BY <1>1 DEF Bijection, Injection, Surjection, IsInjective
<1>4. ExistsBijection(1..Len(s), S)
  BY <1>3 DEF ExistsBijection
<1> QED  BY <1>2, <1>4, FS_Bijection

\* A step of the processor that leaves the workers and what became of the jobs alone.
LEMMA ProcessorTurns ==
    ASSUME DeliveryInv, W!TypeOK', Apart(Lines'), \A j : Waits(Lines', j) <=> Waits(Lines, j),
           Scanning' => held' = <<>>, Waiting' = Waiting,
           queueSize' + pendingRetries' = queueSize + pendingRetries,
           UNCHANGED <<attempts, worker, entering, fate>>
    PROVE  DeliveryInv'
<1>1. Located'
  BY NothingMoves DEF DeliveryInv, Holds
<1>2. /\ Sending' = Sending /\ Scheduling' = Scheduling /\ Lost' = Lost
  BY DEF Sending, Scheduling, Lost
<1>3. Finite' /\ Counted'
  BY <1>2 DEF DeliveryInv, Finite, Counted
<1> QED  BY <1>1, <1>3 DEF DeliveryInv

\* The first job of a line goes to the end of another.
LEMMA Passed ==
    ASSUME DeliveryInv, W!TypeOK', NEW p \in Place, NEW q \in Place, p # q, Lines[p] # <<>>,
           Lines'[p] = Tail(Lines[p]), Lines'[q] = Append(Lines[q], Head(Lines[p])),
           \A r \in Place \ {p, q} : Lines'[r] = Lines[r],
           Scanning' => held' = <<>>,
           UNCHANGED <<attempts, worker, entering, fate, queueSize, pendingRetries>>
    PROVE  DeliveryInv'
<1>0. W!TypeOK /\ Located /\ Finite
  BY DEF DeliveryInv
<1>1. Lines \in [Place -> Seq(Job)] /\ Lines' \in [Place -> Seq(Job)] /\ Apart(Lines)
  BY <1>0, LinesAre, LinesAreNext DEF Located
<1>2. Apart(Lines') /\ \A j : Waits(Lines', j) <=> Waits(Lines, j)
  <2>1. /\ Lines[p] # <<>> /\ Lines'[p] = Tail(Lines[p]) /\ Lines'[q] = Append(Lines[q], Head(Lines[p]))
        /\ \A r \in Place \ {p, q} : Lines'[r] = Lines[r]
    OBVIOUS
  <2> QED  BY ONLY <1>1, <2>1, p \in Place, q \in Place, p # q, Moved, Zenon
<1>3. Head(Lines[p]) \in Job
  BY <1>1
<1>4. /\ Len(Lines'[p]) = Len(Lines[p]) - 1 /\ Len(Lines'[q]) = Len(Lines[q]) + 1
      /\ \A r \in Place \ {p, q} : Len(Lines'[r]) = Len(Lines[r])
  BY <1>1, <1>3
<1>5. Waiting' = Waiting
  <2>1. PICK d \in Int : d = 1
    OBVIOUS
  <2>2. /\ Len(Lines'[p]) = Len(Lines[p]) - d /\ Len(Lines'[q]) = Len(Lines[q]) + d
        /\ \A r \in Place \ {p, q} : Len(Lines'[r]) = Len(Lines[r])
    BY <1>4, <2>1
  <2> QED  BY <1>0, <2>2, Balanced
<1> QED  BY <1>2, <1>5, ProcessorTurns

\* The processor leaves its slice behind: the jobs in it, all accepted until then, are lost.
LEMMA QuitCounts ==
    ASSUME DeliveryInv, W!TypeOK', W!ProcessorQuits
    PROVE  DeliveryInv'
<1>0. W!TypeOK /\ Located /\ Finite /\ Counted
  BY DEF DeliveryInv
<1>1. /\ processor = W!Select /\ processor' = W!Off /\ held' = <<>>
      /\ fate' = [j \in Job |-> IF \E i \in DOMAIN held : held[i] = j THEN "lost" ELSE fate[j]]
      /\ UNCHANGED <<queue, retryQueue, attempts, worker, entering, queueSize, pendingRetries>>
  BY DEF W!ProcessorQuits, W!stats
<1>2. ~Scanning /\ ~Scanning'
  BY <1>1 DEF Scanning, W!Off, W!Select
<1>3. /\ Lines["slice"] = held /\ Lines'["slice"] = <<>> /\ "slice" \in Place
      /\ \A q \in Place \ {"slice"} : Lines'[q] = Lines[q]
  BY <1>0, <1>1, <1>2, LinesAre, LinesAreNext DEF Place
<1>4. Lines \in [Place -> Seq(Job)] /\ Lines' \in [Place -> Seq(Job)] /\ Apart(Lines) /\ held \in Seq(Job)
  BY <1>0, LinesAre, LinesAreNext DEF Located, W!TypeOK
<1>5. Apart(Lines') /\ \A j : Waits(Lines', j) <=> Waits(Lines, j) /\ ~On(Lines, "slice", j)
  BY <1>3, <1>4, Dropped
<1>6. \A j : On(Lines, "slice", j) <=> \E i \in DOMAIN held : held[i] = j
  BY <1>3 DEF On
<1>7. \A j \in Job : fate'[j] = IF On(Lines, "slice", j) THEN "lost" ELSE fate[j]
  BY <1>1, <1>6
<1>8. \A j \in Job : On(Lines, "slice", j) => Waits(Lines, j) /\ fate[j] = "accepted"
  BY <1>0, <1>3 DEF Located, Waits
<1>9. Located'
  <2>1. \A j \in Job : Waits(Lines', j) => fate'[j] = "accepted" /\ attempts'[j] < MaxRetries
    BY <1>0, <1>1, <1>5, <1>7 DEF Located
  <2>2. \A w \in Worker : Holds(w)' => fate'[worker'[w].job] = "accepted" /\ ~Waits(Lines', worker'[w].job)
    <3>1. \A w \in Worker : Holds(w)' => Holds(w) /\ worker'[w].job = worker[w].job
      BY <1>1 DEF Holds
    <3>2. \A w \in Worker : Holds(w) => worker[w].job \in Job /\ ~On(Lines, "slice", worker[w].job)
      BY <1>0, <1>3, WorkerFacts DEF Located, Waits
    <3> QED  BY <1>0, <1>5, <1>7, <3>1, <3>2 DEF Located
  <2>3. \A u, v \in Worker : Holds(u)' /\ Holds(v)' /\ worker'[u].job = worker'[v].job => u = v
    BY <1>0, <1>1 DEF Located, Holds
  <2>4. (\A j \in entering : fate[j] # "new")' /\ (\A j \in Job : fate[j] = "new" => attempts[j] = 0)'
    BY <1>0, <1>1, <1>7 DEF Located, W!TypeOK
  <2>5. (\A j \in Job : fate[j] = "accepted" => Waits(Lines, j) \/ InHands(j))'
    <3>1. \A j : InHands(j)' <=> InHands(j)
      BY <1>1 DEF InHands, Holds
    <3> QED  BY <1>0, <1>5, <1>7, <3>1 DEF Located
  <2> QED  BY <1>2, <1>5, <2>1, <2>2, <2>3, <2>4, <2>5 DEF Located
<1>10. PICK S : S = {j \in Job : \E i \in DOMAIN held : held[i] = j}
  OBVIOUS
<1>11. IsFiniteSet(S) /\ Cardinality(S) = Len(held)
  <2>1. \A i, k \in DOMAIN held : held[i] = held[k] => i = k
    BY <1>3, <1>4 DEF Apart
  <2> QED  BY <1>4, <1>10, <2>1, LineSize
<1>12. Lost' = Lost \cup S /\ Lost \cap S = {}
  BY <1>6, <1>7, <1>8, <1>10 DEF Lost
<1>13. IsFiniteSet(Lost') /\ Cardinality(Lost') = Cardinality(Lost) + Len(held)
  <2>1. Cardinality(Lost \cap S) = 0
    BY <1>12, FS_EmptySet
  <2>2. IsFiniteSet(Lost \cup S) /\ Cardinality(Lost \cup S) = Cardinality(Lost) + Cardinality(S) - Cardinality(Lost \cap S)
    BY <1>0, <1>11, FS_Union DEF Finite
  <2>3. Len(held) \in Nat /\ Cardinality(Lost) \in Nat
    BY <1>0, <1>4, Numbers
  <2> QED  BY <1>11, <1>12, <2>1, <2>2, <2>3
<1>14. Sending' = Sending /\ Scheduling' = Scheduling
  BY <1>1 DEF Sending, Scheduling
<1>15. Finite'
  BY <1>0, <1>1, <1>13, <1>14 DEF Finite
<1>16. PICK n \in Int : n = Len(held)
  BY <1>4
<1>17. Waiting' = Waiting + (-n) /\ -n \in Int
  <2>1. Len(Lines'["slice"]) = Len(Lines["slice"]) + (-n) /\ -n \in Int
    BY <1>3, <1>16
  <2>2. \A q \in Place \ {"slice"} : Len(Lines'[q]) = Len(Lines[q])
    BY <1>3
  <2> QED  BY <1>0, <1>3, <2>1, <2>2, Longer
<1>18. Counted'
  <2>0. PICK q, m \in Int : q = queueSize /\ m = pendingRetries /\ q = queueSize' /\ m = pendingRetries'
    BY <1>0, <1>1 DEF W!TypeOK
  <2>1. /\ Cardinality(Sending') = Cardinality(Sending) + 0 /\ Cardinality(Lost') = Cardinality(Lost) + n
        /\ Cardinality(Scheduling') = Cardinality(Scheduling) + 0
        /\ Cardinality(entering') = Cardinality(entering) + 0
    BY <1>0, <1>1, <1>13, <1>14, <1>16, Numbers
  <2>2. queueSize' + pendingRetries' = queueSize + pendingRetries + (-n) + 0 + n - 0 - 0
    BY ONLY <2>0, n \in Int
  <2> QED  BY <1>0, <1>15, <1>16, <1>17, <2>1, <2>2, Recount
<1> QED  BY <1>9, <1>15, <1>18 DEF DeliveryInv

\* What the retry processor does.
LEMMA ProcessorCounts ==
    ASSUME DeliveryInv, W!TypeOK', W!ProcessorStep
    PROVE  DeliveryInv'
<1>0. W!TypeOK /\ Located /\ Finite
  BY DEF DeliveryInv
<1> USE DEF W!jobs, W!stats
<1>1. CASE W!ProcessorQuits
  BY <1>1, QuitCounts
<1>2. CASE W!Hold
  <2>1. ~Scanning /\ ~Scanning' /\ UNCHANGED <<attempts, worker, entering, fate, queueSize, pendingRetries>>
    BY <1>2 DEF W!Hold, Scanning, W!Select
  <2>2. "retryQueue" \in Place /\ "slice" \in Place /\ "retryQueue" # "slice"
    BY DEF Place
  <2>3. /\ Lines["retryQueue"] # <<>> /\ Lines'["retryQueue"] = Tail(Lines["retryQueue"])
        /\ Lines'["slice"] = Append(Lines["slice"], Head(Lines["retryQueue"]))
        /\ \A r \in Place \ {"retryQueue", "slice"} : Lines'[r] = Lines[r]
    BY <1>0, <1>2, <2>1, LinesAre, LinesAreNext DEF W!Hold, Place
  <2> QED  BY <2>1, <2>2, <2>3, Passed
<1>3. CASE W!Scan
  <2>1. ~Scanning /\ Scanning' /\ UNCHANGED <<attempts, worker, entering, fate, queueSize, pendingRetries>>
    BY <1>3 DEF W!Scan, Scanning, W!Select
  <2>2. "slice" \in Place /\ "rest" \in Place /\ "slice" # "rest"
    BY DEF Place
  <2>3. /\ Lines["rest"] = <<>> /\ Lines'["slice"] = <<>> /\ Lines'["rest"] = Lines["slice"]
        /\ \A r \in Place \ {"slice", "rest"} : Lines'[r] = Lines[r]
    BY <1>0, <1>3, <2>1, LinesAre, LinesAreNext DEF W!Scan, Place
  <2>4. Lines \in [Place -> Seq(Job)] /\ Lines' \in [Place -> Seq(Job)] /\ Apart(Lines)
    BY <1>0, LinesAre, LinesAreNext DEF Located
  <2>5. Apart(Lines') /\ \A j : Waits(Lines', j) <=> Waits(Lines, j)
    BY <2>2, <2>3, <2>4, Handed
  <2>6. Waiting' = Waiting
    <3>1. PICK d \in Int : d = Len(Lines["slice"])
      BY <2>2, <2>4
    <3>2. /\ Len(Lines'["slice"]) = Len(Lines["slice"]) - d /\ Len(Lines'["rest"]) = Len(Lines["rest"]) + d
          /\ \A r \in Place \ {"slice", "rest"} : Len(Lines'[r]) = Len(Lines[r])
      BY <2>3, <3>1
    <3> QED  BY <1>0, <2>2, <3>2, Balanced
  <2>7. held' = <<>>
    BY <1>3 DEF W!Scan
  <2> QED  BY <2>1, <2>5, <2>6, <2>7, ProcessorTurns
<1>4. CASE W!ScanOne
  <2>1. Scanning /\ Scanning' /\ UNCHANGED <<held, retryQueue, attempts, worker, entering, fate, queueSize, pendingRetries>>
    BY <1>0, <1>4 DEF W!ScanOne, Scanning, W!TypeOK, W!Off, W!Select
  <2>2. held' = <<>>
    BY <1>0, <2>1 DEF Located
  <2>3. "rest" \in Place /\ "slice" \in Place /\ "queue" \in Place /\ "rest" # "slice" /\ "rest" # "queue"
    BY DEF Place
  <2>4. /\ processor \in [pc : {"scan", "requeued"}, rest : Seq(Job), kept : Seq(Job)]
        /\ processor.rest # <<>>
    BY <1>0, <1>4, <2>1 DEF W!ScanOne, Scanning, W!TypeOK, W!Off, W!Select
  <2>5. PICK j : j = Head(processor.rest)
    OBVIOUS
  <2>6. CASE queue' = Append(queue, j) /\ processor'.rest = Tail(processor.rest) /\ processor'.kept = processor.kept
    <3>1. /\ Lines["rest"] # <<>> /\ Lines'["rest"] = Tail(Lines["rest"])
          /\ Lines'["queue"] = Append(Lines["queue"], Head(Lines["rest"]))
          /\ \A r \in Place \ {"rest", "queue"} : Lines'[r] = Lines[r]
      BY <1>0, <2>1, <2>4, <2>5, <2>6, LinesAre, LinesAreNext DEF Place
    <3> QED  BY <2>1, <2>2, <2>3, <3>1, Passed
  <2>7. CASE queue' = queue /\ processor'.rest = Tail(processor.rest) /\ processor'.kept = Append(processor.kept, j)
    <3>1. /\ Lines["rest"] # <<>> /\ Lines'["rest"] = Tail(Lines["rest"])
          /\ Lines'["slice"] = Append(Lines["slice"], Head(Lines["rest"]))
          /\ \A r \in Place \ {"rest", "slice"} : Lines'[r] = Lines[r]
      BY <1>0, <2>1, <2>4, <2>5, <2>7, LinesAre, LinesAreNext DEF Place
    <3> QED  BY <2>1, <2>2, <2>3, <3>1, Passed
  <2> QED  BY <1>4, <2>4, <2>5, <2>6, <2>7 DEF W!ScanOne
<1>5. CASE W!Requeued
  <2>1. /\ Scanning /\ Scanning' /\ processor'.rest = processor.rest /\ processor'.kept = processor.kept
        /\ UNCHANGED <<queue, held, retryQueue, attempts, worker, entering, fate>>
        /\ queueSize' = queueSize + 1 /\ pendingRetries' = pendingRetries - 1
    BY <1>0, <1>5 DEF W!Requeued, Scanning, W!TypeOK, W!Off, W!Select, W!chans
  <2>2. Lines' = Lines
    BY <2>1 DEF Lines
  <2>3. queueSize' + pendingRetries' = queueSize + pendingRetries
    BY <1>0, <2>1 DEF W!TypeOK
  <2>4. Waiting' = Waiting /\ Apart(Lines') /\ (\A j : Waits(Lines', j) <=> Waits(Lines, j)) /\ held' = <<>>
    BY <1>0, <2>1, <2>2 DEF Waiting, Located
  <2> QED  BY <2>1, <2>3, <2>4, ProcessorTurns
<1>6. CASE W!ScanEnds
  <2>1. /\ Scanning /\ ~Scanning' /\ processor.rest = <<>> /\ held' = processor.kept
        /\ UNCHANGED <<queue, retryQueue, attempts, worker, entering, fate, queueSize, pendingRetries>>
    BY <1>6 DEF W!ScanEnds, Scanning, W!Select
  <2>2. Lines' = Lines
    BY <2>1 DEF Lines
  <2>3. Waiting' = Waiting /\ Apart(Lines') /\ (\A j : Waits(Lines', j) <=> Waits(Lines, j))
    BY <1>0, <2>2 DEF Waiting, Located
  <2> QED  BY <2>1, <2>3, ProcessorTurns
<1> QED  BY <1>1, <1>2, <1>3, <1>4, <1>5, <1>6 DEF W!ProcessorStep

-----------------------------------------------------------------------------
(* Theorems about delivery.                                                *)

LEMMA DeliveryInit ==
    ASSUME W!Init, MaxRetries \in Nat \ {0}, BufferSize \in Nat
    PROVE  DeliveryInv
<1> USE DEF W!Init
<1>1. W!TypeOK
  <2>1. <<>> \in Seq(Job) /\ Len(<<>>) = 0
    OBVIOUS
  <2>2. queue \in Seq(Job) /\ Len(queue) <= BufferSize /\ retryQueue \in Seq(Job) /\ Len(retryQueue) <= BufferSize
        /\ held \in Seq(Job)
    BY <2>1
  <2>3. attempts \in [Job -> 0..MaxRetries] /\ due \in [Job -> BOOLEAN]
    OBVIOUS
  <2>4. worker \in [Worker -> {W!Off, W!Select} \cup [pc : W!Busy, job : Job]]
    OBVIOUS
  <2>5. fate \in [Job -> {"new", "accepted", "delivered", "abandoned", "refused", "lost"}]
    OBVIOUS
  <2>6. /\ entering \subseteq Job /\ stopper \in {"idle", "waiting", "panic"}
        /\ running \in BOOLEAN /\ stopCh \in BOOLEAN /\ ctxDone \in BOOLEAN
    OBVIOUS
  <2>7. queueSize \in Int /\ pendingRetries \in Int
    <3>1. queueSize = 0 /\ pendingRetries = 0
      OBVIOUS
    <3> HIDE DEF W!Init
    <3> QED  BY <3>1
  <2>8. processor \in {W!Off, W!Select} \cup [pc : {"scan", "requeued"}, rest : Seq(Job), kept : Seq(Job)]
    OBVIOUS
  <2> HIDE DEF W!Init
  <2> QED  BY <2>2, <2>3, <2>4, <2>5, <2>6, <2>7, <2>8 DEF W!TypeOK
<1>2. ~Scanning /\ Lines = [p \in Place |-> <<>>]
  BY DEF Scanning, Lines, Place, W!Off
<1>3. Sending = {} /\ Scheduling = {} /\ Lost = {} /\ \A w \in Worker : ~Holds(w)
  BY DEF Sending, Scheduling, Lost, Holds, W!Off
<1>4. Apart(Lines) /\ \A j : ~Waits(Lines, j)
  BY <1>2 DEF Apart, Waits, On
<1>5. Located
  BY <1>2, <1>3, <1>4 DEF Located
<1>6. Finite
  BY <1>3, FS_EmptySet DEF Finite
<1>7. Waiting = 0
  BY <1>2 DEF Waiting, Place
<1>8. Counted
  BY <1>3, <1>7, FS_EmptySet DEF Counted
<1> QED  BY <1>1, <1>5, <1>6, <1>8 DEF DeliveryInv

LEMMA DeliveryStep ==
    ASSUME DeliveryInv, W!Next \/ UNCHANGED W!vars, MaxRetries \in Nat \ {0}, BufferSize \in Nat
    PROVE  DeliveryInv'
<1>0. W!TypeOK'
  BY DeliveryTypes DEF DeliveryInv
<1> USE DEF W!chans, W!jobs, W!stats
<1>1. CASE W!Start
  BY <1>0, <1>1, StartCounts
<1>2. CASE W!Stop \/ W!StopReturns \/ W!StopTimesOut \/ W!Cancel
  BY <1>0, <1>2, DeliveryRests DEF W!Stop, W!StopReturns, W!StopTimesOut, W!Cancel
<1>3. CASE \E j \in Job : W!EnqueueWebhook(j)
  BY <1>0, <1>3, EnqueueCounts
<1>4. CASE \E j \in Job : W!Enqueued(j)
  BY <1>0, <1>4, EnqueuedCounts
<1>5. CASE \E j \in Job : W!Tick(j)
  BY <1>0, <1>5, DeliveryRests DEF W!Tick
<1>6. CASE \E w \in Worker : W!WorkerStep(w)
  BY <1>0, <1>6, WorkerCounts
<1>7. CASE W!ProcessorStep
  BY <1>0, <1>7, ProcessorCounts
<1>8. CASE UNCHANGED W!vars
  BY <1>0, <1>8, DeliveryRests DEF W!vars
<1> QED  BY <1>1, <1>2, <1>3, <1>4, <1>5, <1>6, <1>7, <1>8 DEF W!Next

\* Every job EnqueueWebhook has accepted is in exactly one place until its fate is
\* settled: one position of one channel or of the retry processor's slice, or the hands
\* of one worker; so no two workers ever send the same job and none is forgotten.  No
\* channel holds more than its capacity and no job is attempted more than MaxRetries
\* times.
THEOREM DeliveryIsSound ==
    W!Spec => []DeliveryInv
<1>1. W!Init => DeliveryInv
  BY BufferAssumption, RetriesAssumption, DeliveryInit
<1>2. DeliveryInv /\ [W!Next]_(W!vars) => DeliveryInv'
  BY BufferAssumption, RetriesAssumption, DeliveryStep
<1> QED  BY <1>1, <1>2, PTL DEF W!Spec

\* QueueSize and PendingRetries drift together: whatever the workers, the retry
\* processor, EnqueueWebhook, Start and Stop do, and in whatever order their updateStats
\* come, the two counters always add up to the jobs that wait or are being sent and
\* those lost with the slice, less the additions still to come.
THEOREM CountersAddUp ==
    W!Spec => []CountersDriftTogether
<1>1. DeliveryInv => CountersDriftTogether
  BY CountedIs DEF DeliveryInv, Located
<1> QED  BY <1>1, DeliveryIsSound, PTL

\* What processWebhookJob, abandonWebhookJob or the end of the retry processor settles.
IsSettled(j) == fate[j] \in {"delivered", "abandoned", "refused", "lost"}

\* Only a job that waits is begun.
LEMMA BegunWaited ==
    ASSUME DeliveryInv, NEW p \in {"queue", "retryQueue"}, NEW s, s = Lines[p], s # <<>>,
           NEW w, W!Begin(w, Head(s)), NEW j \in Job, IsSettled(j)
    PROVE  attempts'[j] = attempts[j]
<1>1. PICK k : k = Head(s)
  OBVIOUS
<1>2. s \in Seq(Job) /\ p \in Place
  BY LinesAre DEF DeliveryInv, Place
<1>3. k \in Job /\ 1 \in DOMAIN s /\ s[1] = k
  BY <1>1, <1>2
<1>4. fate[k] = "accepted"
  BY <1>2, <1>3 DEF DeliveryInv, Located, Waits, On
<1>5. attempts' = [attempts EXCEPT ![k] = @ + 1] /\ attempts \in [Job -> 0..MaxRetries]
  BY <1>1 DEF W!Begin, DeliveryInv, W!TypeOK
<1> QED  BY <1>4, <1>5 DEF IsSettled

\* A settled fate is final: a webhook that was delivered, abandoned, refused or lost is
\* never attempted again, and what became of it never changes, however the workers that
\* read both channels, the retry processor and restarts interleave.
THEOREM FatesAreFinal ==
    W!Spec => [][\A j \in Job : IsSettled(j) => fate'[j] = fate[j] /\ attempts'[j] = attempts[j]]_(W!vars)
<1>1. ASSUME DeliveryInv, W!Next, NEW j \in Job, IsSettled(j)
      PROVE  fate'[j] = fate[j] /\ attempts'[j] = attempts[j]
  <2>0. W!TypeOK /\ Located
    BY <1>1 DEF DeliveryInv
  <2> USE DEF W!chans, W!jobs
  <2>1. CASE W!Start \/ W!Stop \/ W!StopReturns \/ W!StopTimesOut \/ W!Cancel
    BY <2>1 DEF W!Start, W!Stop, W!StopReturns, W!StopTimesOut, W!Cancel
  <2>2. ASSUME NEW k \in Job, W!EnqueueWebhook(k) \/ W!Enqueued(k) \/ W!Tick(k)
        PROVE  fate'[j] = fate[j] /\ attempts'[j] = attempts[j]
    <3>1. CASE W!EnqueueWebhook(k)
      <4>1. fate[k] = "new" /\ attempts' = attempts /\ \E f : fate' = [fate EXCEPT ![k] = f]
        BY <3>1 DEF W!EnqueueWebhook
      <4> QED  BY <1>1, <2>0, <4>1 DEF W!TypeOK, IsSettled
    <3>2. CASE W!Enqueued(k) \/ W!Tick(k)
      BY <3>2 DEF W!Enqueued, W!Tick
    <3> QED  BY <2>2, <3>1, <3>2
  <2>3. ASSUME NEW w \in Worker, W!WorkerStep(w)
        PROVE  fate'[j] = fate[j] /\ attempts'[j] = attempts[j]
    <3>1. CASE W!WorkerQuits(w) \/ W!Send(w) \/ W!Retry(w) \/ W!Scheduled(w)
      BY <3>1 DEF W!WorkerQuits, W!Send, W!Retry, W!Scheduled
    <3>2. CASE W!TakeJob(w)
      <4>1. Lines["queue"] = queue /\ queue # <<>> /\ W!Begin(w, Head(queue)) /\ fate' = fate
        BY <2>0, <3>2, LinesAre DEF W!TakeJob
      <4> QED  BY <1>1, <4>1, BegunWaited
    <3>3. CASE W!TakeRetry(w)
      <4>1. Lines["retryQueue"] = retryQueue /\ retryQueue # <<>> /\ W!Begin(w, Head(retryQueue)) /\ fate' = fate
        BY <2>0, <3>3, LinesAre DEF W!TakeRetry
      <4> QED  BY <1>1, <4>1, BegunWaited
    <3>4. CASE W!Finish(w) \/ W!Abandon(w)
      <4>1. Holds(w) /\ attempts' = attempts /\ \E f : fate' = [fate EXCEPT ![worker[w].job] = f]
        BY <3>4 DEF W!Finish, W!Abandon, W!In, Holds
      <4>2. fate[worker[w].job] = "accepted"
        BY <2>0, <4>1 DEF Located
      <4> QED  BY <1>1, <2>0, <4>1, <4>2 DEF W!TypeOK, IsSettled
    <3> QED  BY <2>3, <3>1, <3>2, <3>3, <3>4 DEF W!WorkerStep
  <2>4. CASE W!ProcessorStep
    <3>1. CASE W!ProcessorQuits
      <4>1. ~Scanning /\ Lines["slice"] = held /\ "slice" \in Place
        BY <2>0, <3>1, LinesAre DEF W!ProcessorQuits, Scanning, W!Select, Place
      <4>2. ~(\E i \in DOMAIN held : held[i] = j)
        BY <1>1, <2>0, <4>1 DEF Located, Waits, On, IsSettled
      <4> QED  BY <3>1, <4>2 DEF W!ProcessorQuits
    <3>2. CASE W!Hold \/ W!Scan \/ W!ScanOne \/ W!Requeued \/ W!ScanEnds
      BY <3>2 DEF W!Hold, W!Scan, W!ScanOne, W!Requeued, W!ScanEnds
    <3> QED  BY <2>4, <3>1, <3>2 DEF W!ProcessorStep
  <2> QED  BY <1>1, <2>1, <2>2, <2>3, <2>4 DEF W!Next
<1>2. DeliveryInv /\ [W!Next]_(W!vars) =>
         [\A j \in Job : IsSettled(j) => fate'[j] = fate[j] /\ attempts'[j] = attempts[j]]_(W!vars)
  BY <1>1
<1> QED  BY <1>2, DeliveryIsSound, PTL DEF W!Spec
=============================================================================
