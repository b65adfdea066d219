--------------------------- MODULE AccountsProofs ---------------------------
(***************************************************************************)
(* Proofs about Accounts: its type invariant with the uniqueness of e-mail *)
(* addresses and domain names, that a token names its account and an       *)
(* account without credentials has a cause, and that deleted accounts stay *)
(* silent.                                                                 *)
(***************************************************************************)
EXTENDS Accounts, TLAPS

\* The locals a handler has set by the time it gets to a statement.
LocalsOf(q) ==
    /\ q.pc \in {"insertUser", "insertCreds", "getCreds", "validateToken", "insertDomain"}
          => q.user \in UserID
    /\ q.pc \in {"insertUser", "insertCreds", "byProvider", "byEmail", "updateUser",
                 "checkEmail", "createUser", "adminUpdate"} => q.email \in Email
    /\ q.pc \in {"byProvider", "byEmail", "updateUser", "checkEmail", "createUser",
                 "adminUpdate"} => q.pid \in UserID
    /\ q.pc \in {"updateUser", "createUser", "adminUpdate"} => q.target \in UserID
    /\ q.pc = "insertDomain" => q.name \in Name /\ q.target \in DomainID \cap used

Locals == \A r \in Request : LocalsOf(req[r])

\* r is about to insert a row of users for the id u it has drawn.
Drawn(r, u) ==
    \/ req[r].pc = "insertUser" /\ req[r].user = u
    \/ req[r].pc = "createUser" /\ req[r].target = u

\* An id is inserted once: it was drawn by one request and was never in the table.
Ids ==
    /\ DOMAIN users \cap deleted = {}
    /\ \A r \in Request, u \in UserID :
          Drawn(r, u) =>
             /\ u \in used /\ u \notin DOMAIN users /\ u \notin deleted
             /\ \A s \in Request : Drawn(s, u) => s = r

\* The foreign key of domains.
ForeignKey == \A d \in DOMAIN domains : domains[d].owner \in DOMAIN users

\* As long as no lookup failed and nobody was deleted, every row has its own id as
\* provider id, and GetOrCreateUserByAuthProvider always finds it by that.
Undisturbed == ~lookupFailed /\ deleted = {}

Regular ==
    Undisturbed =>
       /\ \A u \in DOMAIN users : users[u].pid = u
       /\ \A r \in Request :
             /\ req[r].pc \notin {"byEmail", "updateUser", "checkEmail", "createUser"}
             /\ req[r].pc = "byProvider" => req[r].pid = req[r].user
             /\ req[r].pc \in {"byProvider", "insertCreds"} => req[r].user \in DOMAIN users
             /\ req[r].pc = "adminUpdate" => req[r].pid = req[r].target
       /\ StrandedNeedsFault
       /\ TokenNamesItsAccount

IInv == TypeOK /\ Locals /\ Ids /\ ForeignKey /\ Regular

-----------------------------------------------------------------------------

\* A handler's next state.
LEMMA ContinueFacts ==
    ASSUME NEW r \in Request, NEW p \in Progress, req \in [Request -> Progress], Continue(r, p)
    PROVE  /\ req' \in [Request -> Progress]
           /\ req'[r] = p
           /\ \A s \in Request : s # r => req'[s] = req[s]
BY DEF Continue

LEMMA IdleFacts == Idle \in Progress /\ Idle.pc = "idle"
BY DEF Idle, Progress, PC

\* It holds at the start.
LEMMA InitHolds == Init => IInv
<1> SUFFICES ASSUME Init PROVE IInv
    OBVIOUS
<1>1. DOMAIN users = {} /\ DOMAIN domains = {} /\ creds = {} /\ used = {} /\ deleted = {} /\ credsFailed = {}
    BY DEF Init
<1>2. req \in [Request -> Progress] /\ \A r \in Request : req[r].pc = "idle"
    BY IdleFacts DEF Init
<1>3. TypeOK
  <2>1. users \in [DOMAIN users -> Row] /\ domains \in [DOMAIN domains -> DomainRow]
    BY <1>1 DEF Init
  <2>2. tokens \subseteq Claims /\ lookupFailed \in BOOLEAN
    BY MintedAssumption DEF Init
  <2> QED BY <1>1, <1>2, <2>1, <2>2 DEF TypeOK
<1>4. Locals
    BY <1>2 DEF Locals, LocalsOf
<1>5. Ids /\ ForeignKey
    BY <1>1, <1>2 DEF Ids, Drawn, ForeignKey
<1>6. Regular
  <2>1. tokens = MintedElsewhere
    BY DEF Init
  <2> QED BY <1>1, <1>2, <2>1 DEF Regular, StrandedNeedsFault, TokenNamesItsAccount
<1> QED BY <1>3, <1>4, <1>5, <1>6 DEF IInv

-----------------------------------------------------------------------------
(* The shapes a step can have.                                             *)

\* What a handler must know to go on to p.
Fits(p) ==
    /\ p.pc \notin {"byEmail", "updateUser", "checkEmail", "createUser"}
    /\ p.pc = "byProvider" => p.pid = p.user
    /\ p.pc \in {"byProvider", "insertCreds"} => p.user \in DOMAIN users
    /\ p.pc = "adminUpdate" => p.pid = p.target

\* A handler goes on, the tables and tokens stay as they are, and no id was drawn.
LEMMA GoesOn ==
    ASSUME IInv, NEW r \in Request, NEW p \in Progress,
           Continue(r, p), UNCHANGED <<tables, tokens, credsFailed, deleted>>,
           lookupFailed' \in {lookupFailed, TRUE},
           req[r].pc # "insertCreds",
           LocalsOf(p), p.pc \notin {"insertUser", "createUser"},
           Undisturbed /\ ~lookupFailed' => Fits(p)
    PROVE  IInv'
<1> USE DEF IInv, tables
<1>1. /\ req' \in [Request -> Progress] /\ req'[r] = p
      /\ \A s \in Request : s # r => req'[s] = req[s]
    BY ContinueFacts DEF TypeOK
<1>2. UNCHANGED <<users, creds, domains, used, tokens, credsFailed, deleted>>
    BY DEF tables
<1>3. TypeOK'
    BY <1>1, <1>2 DEF TypeOK
<1>4. Locals'
    BY <1>1, <1>2 DEF Locals, LocalsOf
<1>5. Ids'
    BY <1>1, <1>2 DEF Ids, Drawn
<1>6. ForeignKey'
    BY <1>2 DEF ForeignKey
<1>7. Regular'
  <2> SUFFICES ASSUME Undisturbed' PROVE Regular'
    BY DEF Regular
  <2>1. Undisturbed /\ ~lookupFailed'
    BY <1>2 DEF Undisturbed, TypeOK
  <2>2. Fits(p)
    BY <2>1
  <2>3. StrandedNeedsFault'
    BY <1>1, <1>2, <2>1 DEF Regular, StrandedNeedsFault, Undisturbed
  <2>4. TokenNamesItsAccount'
    BY <1>2, <2>1 DEF Regular, TokenNamesItsAccount, Undisturbed
  <2> QED BY <1>1, <1>2, <2>1, <2>2, <2>3, <2>4 DEF Regular, Fits
<1> QED BY <1>3, <1>4, <1>5, <1>6, <1>7

\* A handler answers without having changed anything.
LEMMA AnswersOnly ==
    ASSUME IInv, NEW r \in Request, Answer(r), UNCHANGED <<tables, tokens, ghosts>>,
           req[r].pc # "insertCreds"
    PROVE  IInv'
<1>1. Continue(r, Idle)
    BY DEF Answer
<1>2. LocalsOf(Idle) /\ Fits(Idle) /\ Idle.pc \notin {"insertUser", "createUser"}
    BY IdleFacts DEF LocalsOf, Fits
<1> QED BY <1>1, <1>2, IdleFacts, GoesOn DEF ghosts

\* A handler answers with a token for u.
LEMMA Mints ==
    ASSUME IInv, NEW r \in Request, NEW u \in UserID, Mint(r, u), UNCHANGED <<tables, ghosts>>,
           req[r].pc # "insertCreds", Undisturbed => u = req[r].user
    PROVE  IInv'
<1> USE DEF IInv, tables, ghosts
<1>1. /\ req' \in [Request -> Progress] /\ req'[r] = Idle
      /\ \A s \in Request : s # r => req'[s] = req[s]
    BY ContinueFacts, IdleFacts DEF TypeOK, Mint, Answer
<1>2. UNCHANGED <<users, creds, domains, used, lookupFailed, credsFailed, deleted>>
    BY DEF tables, ghosts
<1>3. generateJWT(u, req[r].user) \in Claims
    BY DEF generateJWT, Claims, TypeOK, Progress
<1>4. TypeOK'
    BY <1>1, <1>2, <1>3 DEF TypeOK, Mint
<1>5. Locals'
    BY <1>1, <1>2, IdleFacts DEF Locals, LocalsOf
<1>6. Ids'
    BY <1>1, <1>2, IdleFacts DEF Ids, Drawn
<1>7. ForeignKey'
    BY <1>2 DEF ForeignKey
<1>8. Regular'
  <2> SUFFICES ASSUME Undisturbed' PROVE Regular'
    BY DEF Regular
  <2>1. Undisturbed
    BY <1>2 DEF Undisturbed
  <2>2. StrandedNeedsFault'
    BY <1>1, <1>2, <2>1 DEF Regular, StrandedNeedsFault, Undisturbed
  <2>3. TokenNamesItsAccount'
    <3>1. generateJWT(u, req[r].user).user = generateJWT(u, req[r].user).via
      BY <2>1 DEF generateJWT
    <3>2. \A t \in tokens' : t \in tokens \/ t = generateJWT(u, req[r].user)
      BY DEF Mint
    <3>3. \A t \in tokens \ MintedElsewhere : t.user = t.via
      BY <2>1 DEF Regular, TokenNamesItsAccount, Undisturbed
    <3> QED BY <3>1, <3>2, <3>3 DEF TokenNamesItsAccount
  <2> QED BY <1>1, <1>2, <2>1, <2>2, <2>3, IdleFacts DEF Regular
<1> QED BY <1>4, <1>5, <1>6, <1>7, <1>8

\* INSERT and UPDATE keep the addresses unique.
OnlyRowOf(u, e, i) ==
    /\ DOMAIN users' = DOMAIN users \cup {u}
    /\ users' \in [DOMAIN users' -> Row]
    /\ users'[u] = [email |-> e, pid |-> i]
    /\ \A v \in DOMAIN users : v # u => users'[v] = users[v]
    /\ \A v, w \in DOMAIN users' : users'[v].email = users'[w].email => v = w

LEMMA PutFacts ==
    ASSUME TypeOK, NEW u \in UserID, NEW e \in Email, NEW i \in UserID,
           GetByEmail(e) \subseteq {u}, PutUser(u, [email |-> e, pid |-> i])
    PROVE  OnlyRowOf(u, e, i)
<1>1. DOMAIN users' = DOMAIN users \cup {u}
    BY DEF PutUser
<1>2. \A v \in DOMAIN users' : users'[v] = IF v = u THEN [email |-> e, pid |-> i] ELSE users[v]
    BY DEF PutUser
<1>3. [email |-> e, pid |-> i] \in Row /\ \A v \in DOMAIN users : users[v] \in Row
    BY DEF Row, TypeOK
<1>4. users' \in [DOMAIN users' -> Row]
    BY <1>1, <1>3 DEF PutUser
<1>5. \A v, w \in DOMAIN users' : users'[v].email = users'[w].email => v = w
    BY <1>1, <1>2 DEF TypeOK, GetByEmail
<1>6. /\ users'[u] = [email |-> e, pid |-> i]
      /\ \A v \in DOMAIN users : v # u => users'[v] = users[v]
    BY <1>1, <1>2
<1> QED BY <1>1, <1>4, <1>5, <1>6 DEF OnlyRowOf

\* A handler inserts or overwrites the row of u and answers, or, having inserted it,
\* goes on to the credentials.
LEMMA Puts ==
    ASSUME IInv, NEW r \in Request, NEW p \in Progress, Continue(r, p), req[r].pc # "insertCreds",
           NEW u \in UserID, NEW e \in Email, NEW i \in UserID,
           GetByEmail(e) \subseteq {u}, PutUser(u, [email |-> e, pid |-> i]),
           UNCHANGED <<creds, domains, used, ghosts>>, tokens' \subseteq Claims,
           u \in DOMAIN users \/ Drawn(r, u),
           p.pc = "idle" \/ (p.pc = "insertCreds" /\ p.user = u /\ p.email \in Email),
           Undisturbed => /\ i = u /\ tokens' = tokens
                          /\ u \in DOMAIN users \/ p.pc = "insertCreds"
    PROVE  IInv'
<1> USE DEF IInv, ghosts
<1>1. /\ req' \in [Request -> Progress] /\ req'[r] = p
      /\ \A s \in Request : s # r => req'[s] = req[s]
    BY ContinueFacts DEF TypeOK
<1>2. UNCHANGED <<creds, domains, used, lookupFailed, credsFailed, deleted>>
    OBVIOUS
<1>3. /\ DOMAIN users' = DOMAIN users \cup {u} /\ users' \in [DOMAIN users' -> Row]
      /\ users'[u] = [email |-> e, pid |-> i]
      /\ \A v \in DOMAIN users : v # u => users'[v] = users[v]
      /\ \A v, w \in DOMAIN users' : users'[v].email = users'[w].email => v = w
  <2>1. TypeOK
    OBVIOUS
  <2>2. /\ u \in UserID /\ e \in Email /\ i \in UserID
        /\ GetByEmail(e) \subseteq {u} /\ PutUser(u, [email |-> e, pid |-> i])
    OBVIOUS
  <2> HIDE DEF IInv
  <2>3. OnlyRowOf(u, e, i)
    BY <2>1, <2>2, PutFacts
  <2> QED BY <2>3 DEF OnlyRowOf
<1>4. u \in used /\ u \notin deleted
    BY DEF TypeOK, Ids
<1>5. TypeOK'
    BY <1>1, <1>2, <1>3, <1>4 DEF TypeOK
<1>6. Locals'
  <2>1. ASSUME NEW s \in Request PROVE LocalsOf(req[s])'
    <3>1. CASE s = r
      BY <1>1, <3>1 DEF LocalsOf
    <3>2. CASE s # r
      BY <1>1, <1>2, <3>2 DEF Locals, LocalsOf
    <3> QED BY <3>1, <3>2
  <2> QED BY <2>1 DEF Locals
<1>7. Ids'
  <2>1. ASSUME NEW s \in Request, NEW v \in UserID, Drawn(s, v)'
        PROVE  s # r /\ Drawn(s, v)
    BY <1>1, <2>1 DEF Drawn
  <2>2. ASSUME NEW s \in Request, s # r PROVE ~Drawn(s, u)
    BY <2>2 DEF Ids
  <2>3. (DOMAIN users \cap deleted = {})'
    BY <1>2, <1>3, <1>4 DEF Ids
  <2> QED BY <1>2, <1>3, <2>1, <2>2, <2>3 DEF Ids
<1>8. ForeignKey'
    BY <1>2, <1>3 DEF ForeignKey
<1>9. Regular'
  <2> SUFFICES ASSUME Undisturbed' PROVE Regular'
    BY DEF Regular
  <2>1. Undisturbed
    BY <1>2 DEF Undisturbed
  <2>2. \A v \in DOMAIN users' : users'[v].pid = v
    BY <1>3, <2>1 DEF Regular
  <2>3. StrandedNeedsFault'
    <3> SUFFICES ASSUME NEW v \in DOMAIN users' \ creds'
                 PROVE  (\E s \in Request : req'[s].pc = "insertCreds" /\ req'[s].user = v) \/ v \in credsFailed'
      BY DEF StrandedNeedsFault
    <3>1. CASE v \in DOMAIN users
      <4>1. (\E s \in Request : req[s].pc = "insertCreds" /\ req[s].user = v) \/ v \in credsFailed
        BY <1>2, <2>1, <3>1 DEF Regular, StrandedNeedsFault, Undisturbed
      <4> QED BY <1>1, <1>2, <4>1
    <3>2. CASE v \notin DOMAIN users
      BY <1>1, <1>3, <2>1, <3>2
    <3> QED BY <3>1, <3>2
  <2>4. TokenNamesItsAccount'
    BY <1>2, <2>1 DEF Regular, TokenNamesItsAccount
  <2>5. ASSUME NEW s \in Request
        PROVE  /\ req'[s].pc \notin {"byEmail", "updateUser", "checkEmail", "createUser"}
               /\ req'[s].pc = "byProvider" => req'[s].pid = req'[s].user
               /\ req'[s].pc \in {"byProvider", "insertCreds"} => req'[s].user \in DOMAIN users'
               /\ req'[s].pc = "adminUpdate" => req'[s].pid = req'[s].target
    <3>1. CASE s = r
      BY <1>1, <1>3, <3>1
    <3>2. CASE s # r
      BY <1>1, <1>3, <2>1, <3>2 DEF Regular
    <3> QED BY <3>1, <3>2
  <2> QED BY <2>2, <2>3, <2>4, <2>5 DEF Regular
<1> QED BY <1>5, <1>6, <1>7, <1>8, <1>9

\* A handler draws an id, of a user or of a domain, and goes on to insert it.
LEMMA Draws ==
    ASSUME IInv, NEW r \in Request, NEW p \in Progress, Continue(r, p), req[r].pc # "insertCreds",
           NEW x \in (UserID \cup DomainID) \ used, used' = used \cup {x},
           UNCHANGED <<users, creds, domains, tokens, credsFailed, deleted>>,
           lookupFailed' \in {lookupFailed, TRUE},
           p.pc \in {"insertUser", "createUser", "insertDomain"},
           p.pc = "insertUser" => x = p.user /\ x \in UserID,
           p.pc = "createUser" => x = p.target /\ x \in UserID /\ (Undisturbed => lookupFailed'),
           LocalsOf(p)'
    PROVE  IInv'
<1> USE DEF IInv
<1>1. /\ req' \in [Request -> Progress] /\ req'[r] = p
      /\ \A s \in Request : s # r => req'[s] = req[s]
    BY ContinueFacts DEF TypeOK
<1>2. TypeOK'
    BY <1>1 DEF TypeOK
<1>3. Locals'
  <2>1. ASSUME NEW s \in Request PROVE LocalsOf(req[s])'
    <3>1. CASE s = r
      BY <1>1, <3>1 DEF LocalsOf
    <3>2. CASE s # r
      BY <1>1, <3>2 DEF Locals, LocalsOf
    <3> QED BY <3>1, <3>2
  <2> QED BY <2>1 DEF Locals
<1>4. Ids'
  <2>1. ASSUME NEW s \in Request, NEW v \in UserID, Drawn(s, v)'
        PROVE  (s # r /\ Drawn(s, v)) \/ (s = r /\ v = x)
    BY <1>1, <2>1 DEF Drawn
  <2>2. ASSUME NEW s \in Request, x \in UserID PROVE ~Drawn(s, x)
    BY <2>2 DEF Ids
  <2>3. x \notin DOMAIN users /\ x \notin deleted
    BY DEF TypeOK
  <2> QED BY <2>1, <2>2, <2>3 DEF Ids
<1>5. ForeignKey'
    BY DEF ForeignKey
<1>6. Regular'
  <2> SUFFICES ASSUME Undisturbed' PROVE Regular'
    BY DEF Regular
  <2>1. Undisturbed /\ ~lookupFailed'
    BY DEF Undisturbed, TypeOK
  <2>2. StrandedNeedsFault'
    BY <1>1, <2>1 DEF Regular, StrandedNeedsFault, Undisturbed
  <2>3. TokenNamesItsAccount'
    BY <2>1 DEF Regular, TokenNamesItsAccount, Undisturbed
  <2> QED BY <1>1, <2>1, <2>2, <2>3 DEF Regular
<1> QED BY <1>2, <1>3, <1>4, <1>5, <1>6

-----------------------------------------------------------------------------
(* One lemma per action: what arrives.                                     *)

LEMMA RegisterStep ==
    ASSUME IInv, NEW r \in Request, NEW e \in Email, NEW u \in UserID, Register(r, e, u)
    PROVE  IInv'
<1>1. PICK p : p = [Idle EXCEPT !.pc = "insertUser", !.email = e, !.user = u]
    OBVIOUS
<1>2. p \in Progress /\ p.pc = "insertUser" /\ p.email = e /\ p.user = u
    BY <1>1 DEF Idle, Progress, PC
<1>3. LocalsOf(p)'
    BY <1>2 DEF LocalsOf
<1>4. /\ Continue(r, p) /\ u \in (UserID \cup DomainID) \ used /\ used' = used \cup {u}
      /\ req[r].pc # "insertCreds" /\ UNCHANGED <<users, creds, domains, tokens, credsFailed, deleted>>
      /\ lookupFailed' = lookupFailed
    BY <1>1 DEF Register, Fresh, At, ghosts
<1> QED BY <1>2, <1>3, <1>4, Draws

LEMMA CreateDomainStep ==
    ASSUME IInv, NEW r \in Request, NEW t \in tokens, NEW n \in Name, NEW d \in DomainID,
           CreateDomain(r, t, n, d)
    PROVE  IInv'
<1>1. PICK p : p = [Idle EXCEPT !.pc = "insertDomain", !.user = t.user, !.name = n, !.target = d]
    OBVIOUS
<1>2. t.user \in UserID
    BY DEF CreateDomain, RequireAuth
<1>3. p \in Progress /\ p.pc = "insertDomain" /\ p.name = n /\ p.user = t.user /\ p.target = d
    BY <1>1, <1>2 DEF Idle, Progress, PC
<1>4. /\ Continue(r, p) /\ d \in (UserID \cup DomainID) \ used /\ used' = used \cup {d}
      /\ req[r].pc # "insertCreds" /\ UNCHANGED <<users, creds, domains, tokens, credsFailed, deleted>>
      /\ lookupFailed' = lookupFailed
    BY <1>1 DEF CreateDomain, At, ghosts
<1>5. LocalsOf(p)'
    BY <1>2, <1>3, <1>4 DEF LocalsOf
<1> QED BY <1>3, <1>4, <1>5, Draws

\* The other requests read something and go on.
LEMMA ArrivalReads ==
    ASSUME IInv, NEW r \in Request, At(r, "idle"), UNCHANGED <<tables, tokens, ghosts>>,
           NEW p \in Progress, Continue(r, p), LocalsOf(p),
           p.pc \in {"getCreds", "validateToken", "adminUpdate", "deleteDomain"},
           Undisturbed => (p.pc = "adminUpdate" => p.pid = p.target)
    PROVE  IInv'
<1>1. req[r].pc # "insertCreds" /\ UNCHANGED <<credsFailed, deleted>> /\ lookupFailed' = lookupFailed
    BY DEF At, ghosts
<1>2. Undisturbed => Fits(p)
    BY DEF Fits
<1> QED BY <1>1, <1>2, GoesOn

LEMMA LoginStep ==
    ASSUME IInv, NEW r \in Request, NEW e \in Email, NEW u \in UserID, Login(r, e, u)
    PROVE  IInv'
<1>1. PICK p : p = [Idle EXCEPT !.pc = "getCreds", !.user = u]
    OBVIOUS
<1>2. p \in Progress /\ p.pc = "getCreds" /\ p.user = u
    BY <1>1 DEF Idle, Progress, PC
<1>3. LocalsOf(p)
    BY <1>2 DEF LocalsOf
<1> QED BY <1>1, <1>2, <1>3, ArrivalReads DEF Login

LEMMA ConfirmStep ==
    ASSUME IInv, NEW r \in Request, NEW t \in tokens, ConfirmEmailWithToken(r, t)
    PROVE  IInv'
<1>1. PICK p : p = [Idle EXCEPT !.pc = "validateToken", !.user = t.user]
    OBVIOUS
<1>2. p \in Progress /\ p.pc = "validateToken" /\ p.user = t.user /\ t.user \in UserID
    BY <1>1 DEF Idle, Progress, PC, ConfirmEmailWithToken, RequireAuth
<1>3. LocalsOf(p)
    BY <1>2 DEF LocalsOf
<1> QED BY <1>1, <1>2, <1>3, ArrivalReads DEF ConfirmEmailWithToken

LEMMA AdminGetUserStep ==
    ASSUME IInv, NEW r \in Request, NEW t \in tokens, NEW u \in UserID, NEW e \in Email,
           AdminGetUser(r, t, u, e)
    PROVE  IInv'
<1>1. PICK p : p = [Idle EXCEPT !.pc = "adminUpdate", !.target = u, !.email = e, !.pid = users[u].pid]
    OBVIOUS
<1>2. u \in DOMAIN users /\ users[u].pid \in UserID
    BY DEF AdminGetUser, GetByID, IInv, TypeOK, Row
<1>3. p \in Progress /\ p.pc = "adminUpdate" /\ p.target = u /\ p.email = e /\ p.pid = users[u].pid
    BY <1>1, <1>2 DEF Idle, Progress, PC
<1>4. LocalsOf(p)
    BY <1>2, <1>3 DEF LocalsOf
<1>5. Undisturbed => p.pid = p.target
    BY <1>2, <1>3 DEF IInv, Regular
<1> QED BY <1>1, <1>3, <1>4, <1>5, ArrivalReads DEF AdminGetUser

LEMMA DeleteDomainStep ==
    ASSUME IInv, NEW r \in Request, NEW t \in tokens, NEW d \in DomainID, DeleteDomain(r, t, d)
    PROVE  IInv'
<1>1. PICK p : p = [Idle EXCEPT !.pc = "deleteDomain", !.user = t.user, !.target = d]
    OBVIOUS
<1>2. p \in Progress /\ p.pc = "deleteDomain"
    BY <1>1 DEF Idle, Progress, PC, DeleteDomain, RequireAuth
<1>3. LocalsOf(p)
    BY <1>2 DEF LocalsOf
<1> QED BY <1>1, <1>2, <1>3, ArrivalReads DEF DeleteDomain

-----------------------------------------------------------------------------
(* One lemma per action: the statements.                                   *)

LEMMA CreateUserStep ==
    ASSUME IInv, NEW r \in Request, CreateUser(r)
    PROVE  IInv'
<1> DEFINE u == req[r].user
           e == Lower[req[r].email]
           p == [req[r] EXCEPT !.pc = "insertCreds"]
<1>1. req[r].pc = "insertUser" /\ req[r] \in Progress
    BY DEF CreateUser, At, IInv, TypeOK
<1>2. u \in UserID /\ req[r].email \in Email /\ e \in Email
    BY <1>1, LowerAssumption DEF IInv, Locals, LocalsOf
<1>3. CASE Insertable(e) /\ PutUser(u, [email |-> e, pid |-> u]) /\ Continue(r, p)
  <2>1. p \in Progress /\ p.pc = "insertCreds" /\ p.user = u /\ p.email \in Email
    BY <1>1, <1>2 DEF Progress, PC
  <2>2. GetByEmail(e) \subseteq {u} /\ Drawn(r, u)
    BY <1>1, <1>3 DEF Insertable, Drawn
  <2>3. UNCHANGED <<creds, domains, used, ghosts>> /\ tokens' = tokens /\ tokens \subseteq Claims
    BY DEF CreateUser, IInv, TypeOK
  <2> HIDE DEF u, e, p
  <2> QED BY <1>1, <1>2, <1>3, <2>1, <2>2, <2>3, Puts
<1>4. CASE Answer(r) /\ UNCHANGED users
    BY <1>1, <1>4, AnswersOnly DEF CreateUser, tables
<1> QED BY <1>3, <1>4 DEF CreateUser

LEMMA StoreCredentialsStep ==
    ASSUME IInv, NEW r \in Request, StoreCredentials(r)
    PROVE  IInv'
<1> DEFINE u == req[r].user
<1> USE DEF IInv
<1>1. req[r].pc = "insertCreds" /\ req[r] \in Progress
    BY DEF StoreCredentials, At, TypeOK
<1>2. u \in UserID /\ req[r].email \in Email
    BY <1>1 DEF Locals, LocalsOf
<1>3. UNCHANGED <<users, domains, used, tokens, lookupFailed, deleted>>
    BY DEF StoreCredentials
<1>4. PICK p \in Progress :
         /\ Continue(r, p)
         /\ p.pc = "idle" \/ /\ p.pc = "byProvider" /\ p.pid = u /\ p.user = u /\ u \in DOMAIN users
                             /\ p.email = req[r].email
         /\ creds' \in {creds, creds \cup {u}} /\ creds' \subseteq DOMAIN users
         /\ credsFailed' \in {credsFailed, credsFailed \cup {u}}
         /\ u \in creds' \/ u \in credsFailed'
  <2>1. CASE /\ u \in DOMAIN users /\ creds' = creds \cup {u}
             /\ Continue(r, [req[r] EXCEPT !.pc = "byProvider", !.pid = u]) /\ UNCHANGED credsFailed
    <3>1. LET q == [req[r] EXCEPT !.pc = "byProvider", !.pid = u]
          IN  q \in Progress /\ q.pc = "byProvider" /\ q.pid = u /\ q.user = u /\ q.email = req[r].email
      BY <1>1, <1>2 DEF Progress, PC
    <3>2. creds' \subseteq DOMAIN users
      BY <2>1 DEF TypeOK
    <3> QED BY <2>1, <3>1, <3>2
  <2>2. CASE Answer(r) /\ credsFailed' = credsFailed \cup {u} /\ UNCHANGED creds
    BY <2>2, IdleFacts DEF Answer, TypeOK
  <2> QED BY <2>1, <2>2 DEF StoreCredentials
<1> HIDE DEF u
<1>5. /\ req' \in [Request -> Progress] /\ req'[r] = p
      /\ \A s \in Request : s # r => req'[s] = req[s]
    BY <1>4, ContinueFacts DEF TypeOK
<1>6. TypeOK'
    BY <1>2, <1>3, <1>4, <1>5 DEF TypeOK
<1>7. Locals'
  <2>1. ASSUME NEW s \in Request PROVE LocalsOf(req[s])'
    <3>1. CASE s = r
      BY <1>2, <1>4, <1>5, <3>1 DEF LocalsOf
    <3>2. CASE s # r
      BY <1>3, <1>5, <3>2 DEF Locals, LocalsOf
    <3> QED BY <3>1, <3>2
  <2> QED BY <2>1 DEF Locals
<1>8. Ids' /\ ForeignKey'
    BY <1>3, <1>4, <1>5 DEF Ids, Drawn, ForeignKey
<1>9. Regular'
  <2> SUFFICES ASSUME Undisturbed' PROVE Regular'
    BY DEF Regular
  <2>1. Undisturbed
    BY <1>3 DEF Undisturbed
  <2>2. StrandedNeedsFault'
    <3> SUFFICES ASSUME NEW v \in DOMAIN users' \ creds'
                 PROVE  (\E s \in Request : req'[s].pc = "insertCreds" /\ req'[s].user = v) \/ v \in credsFailed'
      BY DEF StrandedNeedsFault
    <3>1. CASE v = u
      BY <1>4, <3>1
    <3>2. CASE v # u
      <4>1. (\E s \in Request : req[s].pc = "insertCreds" /\ req[s].user = v) \/ v \in credsFailed
        BY <1>3, <1>4, <2>1, <3>2 DEF Regular, StrandedNeedsFault, Undisturbed
      <4> QED BY <1>4, <1>5, <3>2, <4>1 DEF u
    <3> QED BY <3>1, <3>2
  <2>3. TokenNamesItsAccount'
    BY <1>3, <2>1 DEF Regular, TokenNamesItsAccount
  <2>4. ASSUME NEW s \in Request
        PROVE  /\ req'[s].pc \notin {"byEmail", "updateUser", "checkEmail", "createUser"}
               /\ req'[s].pc = "byProvider" => req'[s].pid = req'[s].user
               /\ req'[s].pc \in {"byProvider", "insertCreds"} => req'[s].user \in DOMAIN users'
               /\ req'[s].pc = "adminUpdate" => req'[s].pid = req'[s].target
    <3>1. CASE s = r
      BY <1>3, <1>4, <1>5, <3>1
    <3>2. CASE s # r
      BY <1>3, <1>5, <2>1, <3>2 DEF Regular
    <3> QED BY <3>1, <3>2
  <2>5. \A v \in DOMAIN users' : users'[v].pid = v
    BY <1>3, <2>1 DEF Regular
  <2> QED BY <2>2, <2>3, <2>4, <2>5 DEF Regular
<1> QED BY <1>6, <1>7, <1>8, <1>9

LEMMA CheckPasswordStep ==
    ASSUME IInv, NEW r \in Request, CheckPassword(r)
    PROVE  IInv'
<1>1. PICK p : p = [req[r] EXCEPT !.pc = "validateToken"]
    OBVIOUS
<1>2. req[r].pc = "getCreds" /\ req[r] \in Progress /\ req[r].user \in UserID
    BY DEF CheckPassword, At, IInv, TypeOK, Locals, LocalsOf
<1>3. p \in Progress /\ p.pc = "validateToken" /\ p.user \in UserID
    BY <1>1, <1>2 DEF Progress, PC
<1>4. LocalsOf(p) /\ Fits(p)
    BY <1>3 DEF LocalsOf, Fits
<1>5. UNCHANGED <<tables, tokens, ghosts, lookupFailed, credsFailed, deleted>>
    BY DEF CheckPassword, ghosts
<1>6. CASE Continue(r, p)
    BY <1>2, <1>3, <1>4, <1>5, <1>6, GoesOn
<1>7. CASE Answer(r)
    BY <1>2, <1>5, <1>7, AnswersOnly
<1> QED BY <1>1, <1>6, <1>7 DEF CheckPassword

LEMMA ValidateTokenStep ==
    ASSUME IInv, NEW r \in Request, ValidateToken(r)
    PROVE  IInv'
<1> DEFINE u == req[r].user
<1>1. PICK p : p = [req[r] EXCEPT !.pc = "byProvider", !.email = users[u].email, !.pid = users[u].pid]
    OBVIOUS
<1>2. req[r].pc = "validateToken" /\ req[r] \in Progress /\ u \in UserID
    BY DEF ValidateToken, At, IInv, TypeOK, Locals, LocalsOf
<1>3. UNCHANGED <<tables, tokens, ghosts, lookupFailed, credsFailed, deleted>>
    BY DEF ValidateToken, ghosts
<1>4. CASE GetByID(u) /\ Continue(r, p)
  <2>1. u \in DOMAIN users /\ users[u].email \in Email /\ users[u].pid \in UserID
    BY <1>4 DEF GetByID, IInv, TypeOK, Row
  <2>2. /\ p \in Progress /\ p.pc = "byProvider" /\ p.user = u
        /\ p.email = users[u].email /\ p.pid = users[u].pid
    BY <1>1, <1>2, <2>1 DEF Progress, PC
  <2>3. LocalsOf(p)
    BY <2>1, <2>2 DEF LocalsOf
  <2>4. Undisturbed => Fits(p)
    BY <2>1, <2>2 DEF Fits, IInv, Regular
  <2> QED BY <1>2, <1>3, <1>4, <2>2, <2>3, <2>4, GoesOn
<1>5. CASE Answer(r)
    BY <1>2, <1>3, <1>5, AnswersOnly
<1> QED BY <1>1, <1>4, <1>5 DEF ValidateToken

LEMMA FindByAuthProviderStep ==
    ASSUME IInv, NEW r \in Request, FindByAuthProvider(r)
    PROVE  IInv'
<1>1. PICK p : p = [req[r] EXCEPT !.pc = "byEmail"]
    OBVIOUS
<1>2. /\ req[r].pc = "byProvider" /\ req[r] \in Progress
      /\ req[r].email \in Email /\ req[r].pid \in UserID
    BY DEF FindByAuthProvider, At, IInv, TypeOK, Locals, LocalsOf
<1>3. p \in Progress /\ p.pc = "byEmail" /\ p.email \in Email /\ p.pid \in UserID
    BY <1>1, <1>2 DEF Progress, PC
<1>4. LocalsOf(p)
    BY <1>3 DEF LocalsOf
<1>5. UNCHANGED <<tables, credsFailed, deleted>>
    BY DEF FindByAuthProvider
<1>6. ASSUME NEW u \in GetByAuthProvider(req[r].pid), Mint(r, u), UNCHANGED lookupFailed
      PROVE  IInv'
  <2>1. u \in UserID /\ u \in DOMAIN users /\ users[u].pid = req[r].pid
    BY DEF GetByAuthProvider, IInv, TypeOK
  <2>2. Undisturbed => u = req[r].user
    BY <1>2, <2>1 DEF IInv, Regular
  <2> QED BY <1>2, <1>5, <1>6, <2>1, <2>2, Mints DEF ghosts
<1>7. CASE GetByAuthProvider(req[r].pid) = {} /\ Continue(r, p) /\ UNCHANGED <<tokens, lookupFailed>>
  <2>1. ~Undisturbed
    BY <1>2, <1>7 DEF GetByAuthProvider, IInv, Regular
  <2> QED BY <1>2, <1>3, <1>4, <1>5, <1>7, <2>1, GoesOn
<1>8. CASE Continue(r, p) /\ lookupFailed' = TRUE /\ UNCHANGED tokens
    BY <1>2, <1>3, <1>4, <1>5, <1>8, GoesOn
<1> QED BY <1>1, <1>6, <1>7, <1>8 DEF FindByAuthProvider

LEMMA FindByEmailStep ==
    ASSUME IInv, NEW r \in Request, FindByEmail(r)
    PROVE  IInv'
<1>1. /\ req[r].pc = "byEmail" /\ req[r] \in Progress
      /\ req[r].email \in Email /\ req[r].pid \in UserID
    BY DEF FindByEmail, At, IInv, TypeOK, Locals, LocalsOf
<1>2. ~Undisturbed /\ UNCHANGED <<tables, credsFailed, deleted>>
    BY <1>1 DEF FindByEmail, IInv, Regular
<1>3. PICK p : p = [req[r] EXCEPT !.pc = "checkEmail"]
    OBVIOUS
<1>4. p \in Progress /\ p.pc = "checkEmail" /\ p.email \in Email /\ p.pid \in UserID
    BY <1>1, <1>3 DEF Progress, PC
<1>5. LocalsOf(p)
    BY <1>4 DEF LocalsOf
<1>6. CASE Continue(r, p) /\ UNCHANGED tokens /\ lookupFailed' \in {lookupFailed, TRUE}
    BY <1>1, <1>2, <1>4, <1>5, <1>6, GoesOn
<1>7. ASSUME NEW u \in GetByEmail(req[r].email), UNCHANGED lookupFailed,
             \/ Mint(r, u)
             \/ Continue(r, [req[r] EXCEPT !.pc = "updateUser", !.target = u]) /\ UNCHANGED tokens
      PROVE  IInv'
  <2>1. u \in UserID
    BY DEF GetByEmail, IInv, TypeOK
  <2>2. CASE Mint(r, u)
    BY <1>1, <1>2, <1>7, <2>1, <2>2, Mints DEF ghosts
  <2>3. PICK q : q = [req[r] EXCEPT !.pc = "updateUser", !.target = u]
    OBVIOUS
  <2>4. /\ q \in Progress /\ q.pc = "updateUser" /\ q.email \in Email /\ q.pid \in UserID
        /\ q.target = u
    BY <1>1, <2>1, <2>3 DEF Progress, PC
  <2>5. LocalsOf(q)
    BY <2>1, <2>4 DEF LocalsOf
  <2>6. CASE Continue(r, q) /\ UNCHANGED tokens
    BY <1>1, <1>2, <1>7, <2>4, <2>5, <2>6, GoesOn
  <2> QED BY <1>7, <2>2, <2>3, <2>6
<1> QED BY <1>3, <1>6, <1>7 DEF FindByEmail

\* UPDATE or INSERT of a row for which the answer is a token.
LEMMA PutsAndMints ==
    ASSUME IInv, NEW r \in Request, NEW u \in UserID, NEW e \in Email, NEW i \in UserID,
           req[r].pc # "insertCreds", ~Undisturbed,
           GetByEmail(e) \subseteq {u}, PutUser(u, [email |-> e, pid |-> i]), Mint(r, u),
           u \in DOMAIN users \/ Drawn(r, u),
           UNCHANGED <<creds, domains, used, ghosts>>
    PROVE  IInv'
<1>1. generateJWT(u, req[r].user) \in Claims
    BY DEF generateJWT, Claims, IInv, TypeOK, Progress
<1>2. tokens' \subseteq Claims /\ Continue(r, Idle)
    BY <1>1 DEF Mint, Answer, IInv, TypeOK
<1> QED BY <1>2, IdleFacts, Puts

LEMMA UpdateProviderStep ==
    ASSUME IInv, NEW r \in Request, UpdateProvider(r)
    PROVE  IInv'
<1>1. /\ req[r].pc = "updateUser"
      /\ req[r].email \in Email /\ req[r].pid \in UserID /\ req[r].target \in UserID
    BY DEF UpdateProvider, At, IInv, Locals, LocalsOf
<1>2. ~Undisturbed /\ UNCHANGED <<creds, domains, used, ghosts>>
    BY <1>1 DEF UpdateProvider, IInv, Regular
<1>3. CASE /\ Updatable(req[r].target, req[r].email) /\ Mint(r, req[r].target)
           /\ PutUser(req[r].target, [email |-> req[r].email, pid |-> req[r].pid])
  <2>1. req[r].target \in DOMAIN users /\ GetByEmail(req[r].email) \subseteq {req[r].target}
    BY <1>3 DEF Updatable
  <2> QED BY <1>1, <1>2, <1>3, <2>1, PutsAndMints
<1>4. CASE Answer(r) /\ UNCHANGED <<users, tokens>>
    BY <1>1, <1>2, <1>4, AnswersOnly DEF tables
<1> QED BY <1>3, <1>4 DEF UpdateProvider

LEMMA CheckExistingStep ==
    ASSUME IInv, NEW r \in Request, NEW v \in UserID, CheckExisting(r, v)
    PROVE  IInv'
<1>1. /\ req[r].pc = "checkEmail" /\ req[r] \in Progress
      /\ req[r].email \in Email /\ req[r].pid \in UserID
    BY DEF CheckExisting, At, IInv, TypeOK, Locals, LocalsOf
<1>2. ~Undisturbed /\ UNCHANGED <<users, creds, domains, tokens, credsFailed, deleted>>
    BY <1>1 DEF CheckExisting, IInv, Regular
<1>3. CASE Answer(r) /\ UNCHANGED <<used, lookupFailed>>
    BY <1>1, <1>2, <1>3, AnswersOnly DEF tables, ghosts
<1>4. PICK p : p = [req[r] EXCEPT !.pc = "createUser", !.target = v]
    OBVIOUS
<1>5. /\ p \in Progress /\ p.pc = "createUser" /\ p.email \in Email /\ p.pid \in UserID
      /\ p.target = v
    BY <1>1, <1>4 DEF Progress, PC
<1>6. LocalsOf(p)'
    BY <1>5 DEF LocalsOf
<1>7. CASE /\ Fresh(v) /\ used' = used \cup {v} /\ Continue(r, p)
           /\ lookupFailed' = (lookupFailed \/ GetByEmail(req[r].email) # {})
  <2>1. lookupFailed' \in {lookupFailed, TRUE}
    BY <1>7 DEF IInv, TypeOK
  <2>2. v \in (UserID \cup DomainID) \ used
    BY <1>7 DEF Fresh
  <2> QED BY <1>1, <1>2, <1>5, <1>6, <1>7, <2>1, <2>2, Draws
<1> QED BY <1>3, <1>4, <1>7 DEF CheckExisting

LEMMA CreateWithoutCredentialsStep ==
    ASSUME IInv, NEW r \in Request, CreateWithoutCredentials(r)
    PROVE  IInv'
<1>1. /\ req[r].pc = "createUser"
      /\ req[r].email \in Email /\ req[r].pid \in UserID /\ req[r].target \in UserID
    BY DEF CreateWithoutCredentials, At, IInv, Locals, LocalsOf
<1>2. ~Undisturbed /\ UNCHANGED <<creds, domains, used, ghosts>>
    BY <1>1 DEF CreateWithoutCredentials, IInv, Regular
<1>3. CASE /\ Insertable(req[r].email) /\ Mint(r, req[r].target)
           /\ PutUser(req[r].target, [email |-> req[r].email, pid |-> req[r].pid])
  <2>1. Drawn(r, req[r].target) /\ GetByEmail(req[r].email) \subseteq {req[r].target}
    BY <1>1, <1>3 DEF Insertable, Drawn
  <2> QED BY <1>1, <1>2, <1>3, <2>1, PutsAndMints
<1>4. CASE Answer(r) /\ UNCHANGED <<users, tokens>>
    BY <1>1, <1>2, <1>4, AnswersOnly DEF tables
<1> QED BY <1>3, <1>4 DEF CreateWithoutCredentials

LEMMA AdminUpdateUserStep ==
    ASSUME IInv, NEW r \in Request, AdminUpdateUser(r)
    PROVE  IInv'
<1>1. /\ req[r].pc = "adminUpdate"
      /\ req[r].email \in Email /\ req[r].pid \in UserID /\ req[r].target \in UserID
    BY DEF AdminUpdateUser, At, IInv, Locals, LocalsOf
<1>2. Answer(r) /\ UNCHANGED <<creds, domains, used, tokens, ghosts>>
    BY DEF AdminUpdateUser
<1>3. CASE /\ Updatable(req[r].target, req[r].email)
           /\ PutUser(req[r].target, [email |-> req[r].email, pid |-> req[r].pid])
  <2>1. req[r].target \in DOMAIN users /\ GetByEmail(req[r].email) \subseteq {req[r].target}
    BY <1>3 DEF Updatable
  <2>2. Undisturbed => req[r].pid = req[r].target
    BY <1>1 DEF IInv, Regular
  <2>3. tokens' = tokens /\ tokens' \subseteq Claims /\ Continue(r, Idle)
    BY <1>2 DEF IInv, TypeOK, Answer
  <2> QED BY <1>1, <1>2, <1>3, <2>1, <2>2, <2>3, IdleFacts, Puts
<1>4. CASE UNCHANGED users
    BY <1>1, <1>2, <1>4, AnswersOnly DEF tables
<1> QED BY <1>3, <1>4 DEF AdminUpdateUser

\* A handler changes the domains table and answers.
LEMMA DomainsChange ==
    ASSUME IInv, NEW r \in Request, Answer(r), req[r].pc # "insertCreds",
           UNCHANGED <<users, creds, used, tokens, ghosts>>,
           DOMAIN domains' \subseteq DomainID \cap used, domains' \in [DOMAIN domains' -> DomainRow],
           \A c, d \in DOMAIN domains' : domains'[c].name = domains'[d].name => c = d,
           \A d \in DOMAIN domains' : domains'[d].owner \in DOMAIN users
    PROVE  IInv'
<1> USE DEF IInv, ghosts
<1>1. /\ req' \in [Request -> Progress] /\ req'[r] = Idle
      /\ \A s \in Request : s # r => req'[s] = req[s]
    BY ContinueFacts, IdleFacts DEF TypeOK, Answer
<1>2. TypeOK'
    BY <1>1 DEF TypeOK
<1>3. Locals'
    BY <1>1, IdleFacts DEF Locals, LocalsOf
<1>4. Ids'
    BY <1>1, IdleFacts DEF Ids, Drawn
<1>5. ForeignKey'
    BY DEF ForeignKey
<1>6. Regular'
  <2> SUFFICES ASSUME Undisturbed' PROVE Regular'
    BY DEF Regular
  <2>1. Undisturbed
    BY DEF Undisturbed
  <2>2. StrandedNeedsFault'
    BY <1>1, <2>1 DEF Regular, StrandedNeedsFault, Undisturbed
  <2>3. TokenNamesItsAccount'
    BY <2>1 DEF Regular, TokenNamesItsAccount, Undisturbed
  <2> QED BY <1>1, <2>1, <2>2, <2>3, IdleFacts DEF Regular
<1> QED BY <1>2, <1>3, <1>4, <1>5, <1>6

LEMMA InsertDomainStep ==
    ASSUME IInv, NEW r \in Request, InsertDomain(r)
    PROVE  IInv'
<1> DEFINE d == req[r].target
           row == [name |-> req[r].name, owner |-> req[r].user]
<1>1. /\ req[r].pc = "insertDomain" /\ req[r].user \in UserID /\ req[r].name \in Name
      /\ d \in DomainID \cap used
    BY DEF InsertDomain, At, IInv, Locals, LocalsOf
<1>2. Answer(r) /\ UNCHANGED <<users, creds, used, tokens, ghosts>>
    BY DEF InsertDomain
<1>3. CASE /\ DomainInsertable(req[r].name, req[r].user)
           /\ domains' = [x \in DOMAIN domains \cup {d} |-> IF x = d THEN row ELSE domains[x]]
  <2>1. row \in DomainRow /\ row.name = req[r].name /\ row.owner = req[r].user
    BY <1>1 DEF DomainRow
  <2>2. req[r].user \in DOMAIN users /\ \A x \in DOMAIN domains : domains[x].name # req[r].name
    BY <1>3 DEF DomainInsertable, GetByDomain
  <2> HIDE DEF d, row
  <2>3. /\ DOMAIN domains' = DOMAIN domains \cup {d}
        /\ \A x \in DOMAIN domains' : domains'[x] = IF x = d THEN row ELSE domains[x]
    BY <1>3
  <2>4. DOMAIN domains' \subseteq DomainID \cap used
    BY <1>1, <2>3 DEF IInv, TypeOK
  <2>5. \A x \in DOMAIN domains : domains[x] \in DomainRow
    BY DEF IInv, TypeOK
  <2>6. domains' \in [DOMAIN domains' -> DomainRow]
    BY <1>3, <2>1, <2>5
  <2>7. \A x, y \in DOMAIN domains' : domains'[x].name = domains'[y].name => x = y
    BY <2>1, <2>2, <2>3 DEF IInv, TypeOK
  <2>8. \A x \in DOMAIN domains' : domains'[x].owner \in DOMAIN users
    BY <2>1, <2>2, <2>3 DEF IInv, ForeignKey
  <2> QED BY <1>1, <1>2, <2>4, <2>6, <2>7, <2>8, DomainsChange
<1>4. CASE UNCHANGED domains
    BY <1>1, <1>2, <1>4, AnswersOnly DEF tables
<1> QED BY <1>3, <1>4 DEF InsertDomain

LEMMA DeleteDomainRowStep ==
    ASSUME IInv, NEW r \in Request, DeleteDomainRow(r)
    PROVE  IInv'
<1>1. req[r].pc = "deleteDomain" /\ Answer(r) /\ UNCHANGED <<users, creds, used, tokens, ghosts>>
    BY DEF DeleteDomainRow, At
<1>2. CASE domains' = [x \in DOMAIN domains \ {req[r].target} |-> domains[x]]
  <2>1. /\ DOMAIN domains' \subseteq DOMAIN domains
        /\ \A x \in DOMAIN domains' : domains'[x] = domains[x]
    BY <1>2
  <2>2. domains' \in [DOMAIN domains' -> DomainRow] /\ DOMAIN domains' \subseteq DomainID \cap used
    BY <1>2, <2>1 DEF IInv, TypeOK
  <2>3. /\ \A x, y \in DOMAIN domains' : domains'[x].name = domains'[y].name => x = y
        /\ \A x \in DOMAIN domains' : domains'[x].owner \in DOMAIN users
    BY <2>1 DEF IInv, TypeOK, ForeignKey
  <2> QED BY <1>1, <2>2, <2>3, DomainsChange
<1>3. CASE UNCHANGED domains
    BY <1>1, <1>3, AnswersOnly DEF tables
<1> QED BY <1>2, <1>3 DEF DeleteDomainRow

LEMMA AdminDeleteUserStep ==
    ASSUME IInv, NEW t \in tokens, NEW u \in UserID, AdminDeleteUser(t, u)
    PROVE  IInv'
<1> USE DEF IInv
<1>1. /\ u \in DOMAIN users /\ users' = [v \in DOMAIN users \ {u} |-> users[v]]
      /\ creds' = creds \ {u} /\ deleted' = deleted \cup {u}
      /\ domains' = [d \in {x \in DOMAIN domains : domains[x].owner # u} |-> domains[d]]
      /\ UNCHANGED <<used, tokens, req, lookupFailed, credsFailed>>
    BY DEF AdminDeleteUser, Cascade
<1>2. /\ DOMAIN users' = DOMAIN users \ {u} /\ users' \in [DOMAIN users' -> Row]
      /\ \A v \in DOMAIN users' : users'[v] = users[v]
    BY <1>1 DEF TypeOK
<1>3. /\ DOMAIN domains' = {x \in DOMAIN domains : domains[x].owner # u}
      /\ domains' \in [DOMAIN domains' -> DomainRow]
      /\ \A d \in DOMAIN domains' : domains'[d] = domains[d]
    BY <1>1 DEF TypeOK
<1>4. TypeOK'
    BY <1>1, <1>2, <1>3 DEF TypeOK
<1>5. Locals'
    BY <1>1 DEF Locals, LocalsOf
<1>6. Ids'
    BY <1>1, <1>2 DEF Ids, Drawn
<1>7. ForeignKey'
    BY <1>2, <1>3 DEF ForeignKey
<1>8. Regular'
    BY <1>1 DEF Regular, Undisturbed
<1> QED BY <1>4, <1>5, <1>6, <1>7, <1>8

-----------------------------------------------------------------------------

LEMMA UnchangedHolds ==
    ASSUME IInv, UNCHANGED vars
    PROVE  IInv'
<1> USE DEF IInv, vars, tables, ghosts
<1>1. TypeOK'
    BY DEF TypeOK
<1>2. Locals' /\ Ids' /\ ForeignKey'
    BY DEF Locals, LocalsOf, Ids, Drawn, ForeignKey
<1>3. Regular'
    BY DEF Regular, Undisturbed, StrandedNeedsFault, TokenNamesItsAccount
<1> QED BY <1>1, <1>2, <1>3

LEMMA NextHolds ==
    ASSUME IInv, [Next]_vars
    PROVE  IInv'
<1>1. ASSUME NEW r \in Request, Statement(r) PROVE IInv'
    BY <1>1, CreateUserStep, StoreCredentialsStep, CheckPasswordStep, ValidateTokenStep,
       FindByAuthProviderStep, FindByEmailStep, UpdateProviderStep, CheckExistingStep,
       CreateWithoutCredentialsStep, AdminUpdateUserStep, InsertDomainStep, DeleteDomainRowStep
       DEF Statement
<1>2. ASSUME NEW r \in Request, Arrival(r) PROVE IInv'
    BY <1>2, RegisterStep, LoginStep, ConfirmStep, AdminGetUserStep, CreateDomainStep,
       DeleteDomainStep, UnchangedHolds DEF Arrival, ConfirmEmail, ResendConfirmation
<1> QED BY <1>1, <1>2, AdminDeleteUserStep, UnchangedHolds DEF Next

LEMMA Inductive == Spec => []IInv
<1> QED BY InitHolds, NextHolds, PTL DEF Spec

-----------------------------------------------------------------------------
(* Theorems.                                                               *)

\* Addresses and domain names stay unique and credentials belong to a row of users,
\* for any number of requests that interleave statement by statement.
THEOREM TypeCorrect == Spec => []TypeOK
<1>1. IInv => TypeOK
    BY DEF IInv
<1> QED BY <1>1, Inductive, PTL

\* Registration leaves an account without credentials only when something failed.
THEOREM StrandedAccountsHaveACause == Spec => []StrandedNeedsFault
<1>1. IInv => StrandedNeedsFault
    BY DEF IInv, Regular, Undisturbed, StrandedNeedsFault
<1> QED BY <1>1, Inductive, PTL

\* GetOrCreateUserByAuthProvider never hands out a token for another account than the
\* one whose password was presented, as long as no lookup failed and nobody was deleted.
THEOREM TokensNameTheirAccount == Spec => []TokenNamesItsAccount
<1>1. IInv => TokenNamesItsAccount
    BY DEF IInv, Regular, Undisturbed, TokenNamesItsAccount
<1> QED BY <1>1, Inductive, PTL

\* The token of a deleted account opens nothing, and nothing brings the account back.
THEOREM DeletedAccountsAreSilent == Spec => []DeletedAccountIsSilent
<1>1. ASSUME IInv PROVE DeletedAccountIsSilent
  <2>1. ASSUME NEW t \in tokens, Me(t) = 404 PROVE GetDomains(t) = {}
    <3>1. t.user \notin DOMAIN users
      BY <2>1 DEF Me, GetByID
    <3> QED BY <1>1, <3>1 DEF GetDomains, GetDomainsByUserID, IInv, ForeignKey
  <2>2. ASSUME NEW t \in tokens, GetDomains(t) = {}, NEW d \in DomainID PROVE 200 \notin Answers(t, d)
    <3>1. ~Owns(t, d)
      BY <2>2 DEF Owns
    <3> QED BY <3>1 DEF Answers, GetDomain, UpdateDomain, ValidateDomain, GetValidationStatus,
                        GetValidationInstructions, RetryValidation
  <2>3. ASSUME NEW d \in DomainID, NEW n \in Name, SendEmail(d, n) = 202
        PROVE  domains[d].owner \in DOMAIN users
    <3>1. GetByAPIKey(d) # {}
      BY <2>3 DEF SendEmail
    <3> QED BY <1>1, <3>1 DEF GetByAPIKey, IInv, ForeignKey
  <2>4. ListUsers \cap deleted = {}
    BY <1>1 DEF ListUsers, IInv, Ids
  <2>5. ASSUME NEW t \in tokens, NEW u \in deleted PROVE GetUser(t, u) # 200
    BY <2>4 DEF ListUsers, GetUser, GetByID
  <2> QED BY <2>1, <2>2, <2>3, <2>4, <2>5 DEF DeletedAccountIsSilent
<1> QED BY <1>1, Inductive, PTL
=============================================================================
