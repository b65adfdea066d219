------------------------------ MODULE Accounts ------------------------------
(***************************************************************************)
(* Accounts, credentials, tokens and the domains that hang off them: the   *)
(* HTTP handlers of app/api/v1/auth, users, admin and domains, the local   *)
(* auth provider, the user and domain use cases, and the three tables      *)
(* users, local_credentials and domains they share.                        *)
(*                                                                         *)
(* A handler is a sequence of SQL statements with no transaction around    *)
(* them.  Every statement is one step, may fail, and interleaves with the  *)
(* statements of every other request.  A request that is answered returns  *)
(* to "idle"; answers that leave the tables and the tokens alone (400,     *)
(* 401, 403, 404 before the first write) are not steps of their own.       *)
(***************************************************************************)
EXTENDS FiniteSets

CONSTANTS
    UserID,          \* the UUIDs uuid.NewV4 may draw for users
    DomainID,        \* ... and for domains
    Email,           \* e-mail addresses as the client writes them
    Lower,           \* normalizeEmail, as a function on Email
    Name,            \* domain names, already lower case
    Request,         \* HTTP requests being handled at the same time
    MintedElsewhere, \* tokens signed with the same secret by other programs
    None

ASSUME LowerAssumption ==
    /\ Lower \in [Email -> Email]
    /\ \A e \in Email : Lower[Lower[e]] = Lower[e]

ASSUME IdsAssumption ==
    /\ UserID \cap DomainID = {}
    /\ None \notin UserID \cup DomainID \cup Email \cup Name

-----------------------------------------------------------------------------
(* State.                                                                  *)

\* A row of users: the e-mail (UNIQUE) and the provider's id.  The provider is
\* "local" in every row this build writes, and account type and plan are read
\* by nothing that is modelled here.
Row == [email : Email, pid : UserID]

\* A row of domains: its name (UNIQUE) and the owner (REFERENCES users).
DomainRow == [name : Name, owner : UserID]

\* What the claims of a token say, and a fact about its making that no code
\* sees: the account whose password, registration or older token was presented.
Claims == [user : UserID \cup {None}, type : {"", "user", "owner", "admin", "super_admin"},
           via : UserID \cup {None}]

ASSUME MintedAssumption == MintedElsewhere \subseteq Claims

\* Where a handler is: the statement it is about to send and its locals.
PC == {"idle", "insertUser", "insertCreds", "getCreds", "validateToken", "byProvider",
       "byEmail", "updateUser", "checkEmail", "createUser", "adminUpdate",
       "insertDomain", "deleteDomain"}

Progress == [pc : PC, email : Email \cup {None}, user : UserID \cup {None},
             pid : UserID \cup {None}, target : UserID \cup DomainID \cup {None},
             name : Name \cup {None}]

Idle == [pc |-> "idle", email |-> None, user |-> None, pid |-> None,
         target |-> None, name |-> None]

VARIABLES
    users,        \* the users table, a function on the ids that have a row
    creds,        \* the ids with a row in local_credentials
    domains,      \* the domains table
    used,         \* ids drawn so far: NewV4 never draws one twice
    tokens,       \* signed, unexpired tokens
    req,          \* progress of every request
    lookupFailed, \* did a lookup of GetOrCreateUserByAuthProvider ever fail?
    credsFailed,  \* users whose INSERT INTO local_credentials failed
    deleted       \* users deleted by an administrator

tables == <<users, creds, domains, used>>
ghosts == <<lookupFailed, credsFailed, deleted>>
vars == <<tables, tokens, req, ghosts>>

Init ==
    /\ users = [u \in {} |-> Idle]
    /\ domains = [d \in {} |-> Idle]
    /\ creds = {} /\ used = {}
    /\ tokens = MintedElsewhere
    /\ req = [r \in Request |-> Idle]
    /\ lookupFailed = FALSE /\ credsFailed = {} /\ deleted = {}

-----------------------------------------------------------------------------
(* The statements of gateways/repository/pg.                               *)

\* UserRepository.GetByID and LocalCredentialsRepository.GetByUserID find a row.
GetByID(u) == u \in DOMAIN users

GetByUserID(u) == u \in creds

\* GetByEmail and GetByAuthProvider: the rows the WHERE clause selects.
\* auth_provider_id is not UNIQUE: QueryRow takes any one of several.
GetByEmail(e) == {u \in DOMAIN users : users[u].email = e}

GetByAuthProvider_AnyId(p) == DOMAIN users
GetByAuthProvider(p) == {u \in DOMAIN users : users[u].pid = p}

GetByDomain(n) == {d \in DOMAIN domains : domains[d].name = n}

\* DomainRepository.GetByUserID and GetByAPIKey; a key, as long as an id and
\* UNIQUE as well, is identified with the row it opens.
GetDomainsByUserID(u) == {d \in DOMAIN domains : domains[d].owner = u}

GetByAPIKey(key) == {d \in DOMAIN domains : d = key}

\* UserRepository.List, over all its pages.
ListUsers == DOMAIN users

\* INSERT INTO users and UPDATE users ... WHERE id: refused by the UNIQUE
\* constraint on email, or without effect when the row is gone.
Insertable(e) == GetByEmail(e) = {}

Updatable(u, e) == u \in DOMAIN users /\ GetByEmail(e) \subseteq {u}

PutUser(u, row) == users' = [v \in DOMAIN users \cup {u} |-> IF v = u THEN row ELSE users[v]]

\* INSERT INTO domains: the UNIQUE name and the foreign key to users.
DomainInsertable_NoForeignKey(n, u) == GetByDomain(n) = {}
DomainInsertable(n, u) == GetByDomain(n) = {} /\ u \in DOMAIN users

\* DELETE FROM users: ON DELETE CASCADE takes the credentials and the domains.
Cascade_CredentialsStay(u) ==
    /\ creds' = creds
    /\ domains' = [d \in {x \in DOMAIN domains : domains[x].owner # u} |-> domains[d]]
Cascade(u) ==
    /\ creds' = creds \ {u}
    /\ domains' = [d \in {x \in DOMAIN domains : domains[x].owner # u} |-> domains[d]]

-----------------------------------------------------------------------------
(* How a handler goes on.                                                  *)

At(r, pc) == req[r].pc = pc

Continue(r, p) == req' = [req EXCEPT ![r] = p]

Answer(r) == Continue(r, Idle)

Fresh(u) == u \in UserID \ used

\* generateJWT and signToken: the account type claim is always empty.
generateJWT(u, via) == [user |-> u, type |-> "", via |-> via]

\* RequireAuth accepts any valid token; GetUserIDFromContext parses its user.
RequireAuth(t) == t \in tokens /\ t.user \in UserID

\* RequireAdmin also asks for the account type claim.
RequireAdmin(t) == t \in tokens /\ t.type \in {"admin", "super_admin"}

-----------------------------------------------------------------------------
(* Registration: Register and local.Provider.CreateUser.                   *)

\* Decode, validate, CreateUser's GetByEmail on the normalised address; any
\* row or error ends the request with 400.  The password is hashed and the id
\* drawn before the INSERT.
Register(r, e, u) ==
    /\ At(r, "idle")
    /\ Fresh(u)
    /\ GetByEmail(Lower[e]) = {}
    /\ used' = used \cup {u}
    /\ Continue(r, [Idle EXCEPT !.pc = "insertUser", !.email = e, !.user = u])
    /\ UNCHANGED <<users, creds, domains, tokens, ghosts>>

\* users.Create: stored under the normalised address, provider id = own id.
CreateUser(r) ==
    LET u == req[r].user
        e == Lower[req[r].email]
    IN  /\ At(r, "insertUser")
        /\ \/ /\ Insertable(e)
              /\ PutUser(u, [email |-> e, pid |-> u])
              /\ Continue(r, [req[r] EXCEPT !.pc = "insertCreds"])
           \/ Answer(r) /\ UNCHANGED users          \* duplicate, or the statement failed
        /\ UNCHANGED <<creds, domains, used, tokens, ghosts>>

\* creds.Create: the foreign key refuses a user deleted meanwhile, and a
\* failure leaves the row of users behind ("Best-effort").
StoreCredentials(r) ==
    LET u == req[r].user
    IN  /\ At(r, "insertCreds")
        /\ \/ /\ u \in DOMAIN users
              /\ creds' = creds \cup {u}
              /\ Continue(r, [req[r] EXCEPT !.pc = "byProvider", !.pid = u])
              /\ UNCHANGED credsFailed
           \/ /\ Answer(r)
              /\ credsFailed' = credsFailed \cup {u}
              /\ UNCHANGED creds
        /\ UNCHANGED <<users, domains, used, tokens, lookupFailed, deleted>>

-----------------------------------------------------------------------------
(* Login, and the confirmation with a token.                               *)

\* local.Provider.Login: the row of the normalised address.
Login(r, e, u) ==
    /\ At(r, "idle")
    /\ u \in GetByEmail(Lower[e])
    /\ Continue(r, [Idle EXCEPT !.pc = "getCreds", !.user = u])
    /\ UNCHANGED <<tables, tokens, ghosts>>

\* ... then its credentials; no row, an error or a wrong password is a 401.
CheckPassword(r) ==
    /\ At(r, "getCreds")
    /\ \/ /\ GetByUserID(req[r].user)
          /\ Continue(r, [req[r] EXCEPT !.pc = "validateToken"])
       \/ Answer(r)
    /\ UNCHANGED <<tables, tokens, ghosts>>

\* ConfirmEmailWithToken hands a token it is given to ValidateToken.
ConfirmEmailWithToken(r, t) ==
    /\ At(r, "idle")
    /\ RequireAuth(t)
    /\ Continue(r, [Idle EXCEPT !.pc = "validateToken", !.user = t.user])
    /\ UNCHANGED <<tables, tokens, ghosts>>

\* ConfirmEmail: the local provider hands back an empty token, which never
\* validates, so the handler always ends with an error ...
ConfirmEmail(r) == At(r, "idle") /\ UNCHANGED vars

\* ... and its ResendConfirmation is empty.
ResendConfirmation(r) == At(r, "idle") /\ UNCHANGED vars

\* ValidateToken reads the row again and takes address and provider id from it.
ValidateToken(r) ==
    LET u == req[r].user
    IN  /\ At(r, "validateToken")
        /\ \/ /\ GetByID(u)
              /\ Continue(r, [req[r] EXCEPT !.pc = "byProvider",
                                  !.email = users[u].email, !.pid = users[u].pid])
           \/ Answer(r)                              \* deleted meanwhile, or the read failed
        /\ UNCHANGED <<tables, tokens, ghosts>>

-----------------------------------------------------------------------------
(* user.UseCase.GetOrCreateUserByAuthProvider, shared by all of them.      *)

Mint(r, u) ==
    /\ tokens' = tokens \cup {generateJWT(u, req[r].user)}
    /\ Answer(r)

\* Lookup by provider id: an error is treated like an absent row.
FindByAuthProvider_Skipped(r) ==
    /\ At(r, "byProvider")
    /\ Continue(r, [req[r] EXCEPT !.pc = "byEmail"])
    /\ UNCHANGED <<tables, tokens, ghosts>>
FindByAuthProvider(r) ==
    /\ At(r, "byProvider")
    /\ \/ /\ \E u \in GetByAuthProvider(req[r].pid) : Mint(r, u)
          /\ UNCHANGED lookupFailed
       \/ /\ GetByAuthProvider(req[r].pid) = {}
          /\ Continue(r, [req[r] EXCEPT !.pc = "byEmail"])
          /\ UNCHANGED <<tokens, lookupFailed>>
       \/ /\ Continue(r, [req[r] EXCEPT !.pc = "byEmail"])
          /\ lookupFailed' = TRUE
          /\ UNCHANGED tokens
    /\ UNCHANGED <<tables, credsFailed, deleted>>

\* Lookup by the address as it was given (Register: as the client wrote it;
\* otherwise: as ValidateToken read it).  Again an error counts as absent.
FindByEmail(r) ==
    LET found == GetByEmail(req[r].email)
    IN  /\ At(r, "byEmail")
        /\ \/ \E u \in found :
                 /\ \/ users[u].pid = req[r].pid /\ Mint(r, u)
                    \/ /\ users[u].pid # req[r].pid
                       /\ Continue(r, [req[r] EXCEPT !.pc = "updateUser", !.target = u])
                       /\ UNCHANGED tokens
                 /\ UNCHANGED lookupFailed
           \/ /\ found = {}
              /\ Continue(r, [req[r] EXCEPT !.pc = "checkEmail"])
              /\ UNCHANGED <<tokens, lookupFailed>>
           \/ /\ Continue(r, [req[r] EXCEPT !.pc = "checkEmail"])
              /\ lookupFailed' = TRUE
              /\ UNCHANGED tokens
        /\ UNCHANGED <<tables, credsFailed, deleted>>

\* repo.Update of the row just read, with this request's provider id; the row
\* was found by its address, so that is the address written back.
UpdateProvider(r) ==
    LET u == req[r].target
        e == req[r].email
    IN  /\ At(r, "updateUser")
        /\ \/ /\ Updatable(u, e)
              /\ PutUser(u, [email |-> e, pid |-> req[r].pid])
              /\ Mint(r, u)
           \/ Answer(r) /\ UNCHANGED <<users, tokens>>
        /\ UNCHANGED <<creds, domains, used, ghosts>>

\* UseCase.CreateUser looks the address up once more; here too an error counts
\* as absent.
CheckExisting(r, v) ==
    /\ At(r, "checkEmail")
    /\ \/ /\ GetByEmail(req[r].email) # {}
          /\ Answer(r)
          /\ UNCHANGED <<used, lookupFailed>>
       \/ /\ Fresh(v)
          /\ used' = used \cup {v}
          /\ Continue(r, [req[r] EXCEPT !.pc = "createUser", !.target = v])
          /\ lookupFailed' = (lookupFailed \/ GetByEmail(req[r].email) # {})
    /\ UNCHANGED <<users, creds, domains, tokens, credsFailed, deleted>>

\* ... and inserts a second account: the given address, not normalised, the
\* provider id of the first, and no credentials.
CreateWithoutCredentials(r) ==
    LET v == req[r].target
        e == req[r].email
    IN  /\ At(r, "createUser")
        /\ \/ /\ Insertable(e)
              /\ PutUser(v, [email |-> e, pid |-> req[r].pid])
              /\ Mint(r, v)
           \/ Answer(r) /\ UNCHANGED <<users, tokens>>
        /\ UNCHANGED <<creds, domains, used, ghosts>>

-----------------------------------------------------------------------------
(* The administrator's handlers.                                           *)

\* AdminHandler.UpdateUser reads the row (GetUserByID) and sets the address as
\* the administrator wrote it ...
AdminGetUser(r, t, u, e) ==
    /\ At(r, "idle")
    /\ RequireAdmin(t)
    /\ GetByID(u)
    /\ Continue(r, [Idle EXCEPT !.pc = "adminUpdate", !.target = u, !.email = e,
                                !.pid = users[u].pid])
    /\ UNCHANGED <<tables, tokens, ghosts>>

\* ... and UseCase.UpdateUser writes every column of it back.
AdminUpdateUser(r) ==
    LET u == req[r].target
        e == req[r].email
    IN  /\ At(r, "adminUpdate")
        /\ \/ Updatable(u, e) /\ PutUser(u, [email |-> e, pid |-> req[r].pid])
           \/ UNCHANGED users
        /\ Answer(r)
        /\ UNCHANGED <<creds, domains, used, tokens, ghosts>>

\* AdminHandler.DeleteUser: not oneself; tokens of the account stay valid.
AdminDeleteUser(t, u) ==
    /\ RequireAdmin(t)
    /\ t.user # u
    /\ u \in DOMAIN users
    /\ users' = [v \in DOMAIN users \ {u} |-> users[v]]
    /\ Cascade(u)
    /\ deleted' = deleted \cup {u}
    /\ UNCHANGED <<used, tokens, req, lookupFailed, credsFailed>>

-----------------------------------------------------------------------------
(* The domains of an account.                                              *)

\* CreateDomain: the name must be free when it is looked up (an error counts
\* as free) ...
CreateDomain(r, t, n, d) ==
    /\ At(r, "idle")
    /\ RequireAuth(t)
    /\ d \in DomainID \ used
    /\ used' = used \cup {d}
    /\ Continue(r, [Idle EXCEPT !.pc = "insertDomain", !.user = t.user,
                                !.name = n, !.target = d])
    /\ UNCHANGED <<users, creds, domains, tokens, ghosts>>

\* ... and is inserted for the user the token names, who may be gone by now.
InsertDomain(r) ==
    LET d == req[r].target
        row == [name |-> req[r].name, owner |-> req[r].user]
    IN  /\ At(r, "insertDomain")
        /\ \/ /\ DomainInsertable(req[r].name, req[r].user)
              /\ domains' = [x \in DOMAIN domains \cup {d} |-> IF x = d THEN row ELSE domains[x]]
           \/ UNCHANGED domains
        /\ Answer(r)
        /\ UNCHANGED <<users, creds, used, tokens, ghosts>>

\* UseCase.DeleteDomain reads the row and compares the owner ...
DeleteDomain(r, t, d) ==
    /\ At(r, "idle")
    /\ RequireAuth(t)
    /\ d \in DOMAIN domains
    /\ domains[d].owner = t.user
    /\ Continue(r, [Idle EXCEPT !.pc = "deleteDomain", !.user = t.user, !.target = d])
    /\ UNCHANGED <<tables, tokens, ghosts>>

\* ... and deletes by id.
DeleteDomainRow(r) ==
    /\ At(r, "deleteDomain")
    /\ \/ domains' = [x \in DOMAIN domains \ {req[r].target} |-> domains[x]]
       \/ UNCHANGED domains
    /\ Answer(r)
    /\ UNCHANGED <<users, creds, used, tokens, ghosts>>

\* The handlers that change none of these columns, by what they answer: Me and,
\* for an administrator, GetUser; GetDomains; and SendEmail, which accepts a
\* message from the domain of its API key and, so far, sends nothing.
Me(t) == IF GetByID(t.user) THEN 200 ELSE 404

GetUser(t, u) == IF ~RequireAdmin(t) THEN 403 ELSE IF GetByID(u) THEN 200 ELSE 404

GetDomains(t) == GetDomainsByUserID(t.user)

SendEmail(key, from) ==
    IF GetByAPIKey(key) = {} THEN 401
    ELSE IF domains[key].name # from THEN 400 ELSE 202

\* The handlers under /domains/{id} read the row and compare its owner.
\* UpdateDomain then writes the row, with its name and owner as they were;
\* ValidateDomain and RetryValidation only describe the row, and queue nothing.
Owns(t, d) == d \in GetDomains(t)

GetDomain(t, d) ==
    IF d \notin DOMAIN domains THEN 404 ELSE IF Owns(t, d) THEN 200 ELSE 403

UpdateDomain(t, d) ==
    IF d \notin DOMAIN domains THEN 404 ELSE IF Owns(t, d) THEN 200 ELSE 403

ValidateDomain(t, d) == IF Owns(t, d) THEN 200 ELSE 404

GetValidationStatus(t, d) == IF Owns(t, d) THEN 200 ELSE 404

GetValidationInstructions(t, d) == IF Owns(t, d) THEN 200 ELSE 404

RetryValidation(t, d, canRetry) ==
    IF ~Owns(t, d) THEN 404 ELSE IF canRetry THEN 200 ELSE 400

\* What the holder of a token gets to see or edit of a domain.
Answers(t, d) ==
    {GetDomain(t, d), UpdateDomain(t, d), ValidateDomain(t, d), GetValidationStatus(t, d),
     GetValidationInstructions(t, d)} \cup {RetryValidation(t, d, can) : can \in BOOLEAN}

-----------------------------------------------------------------------------
Statement(r) ==
    \/ CreateUser(r) \/ StoreCredentials(r)
    \/ CheckPassword(r) \/ ValidateToken(r)
    \/ FindByAuthProvider(r) \/ FindByEmail(r) \/ UpdateProvider(r)
    \/ (\E v \in UserID : CheckExisting(r, v)) \/ CreateWithoutCredentials(r)
    \/ AdminUpdateUser(r) \/ InsertDomain(r) \/ DeleteDomainRow(r)

Arrival(r) ==
    \/ \E e \in Email, u \in UserID : Register(r, e, u) \/ Login(r, e, u)
    \/ ConfirmEmail(r) \/ ResendConfirmation(r)
    \/ \E t \in tokens :
          \/ ConfirmEmailWithToken(r, t)
          \/ \E u \in UserID, e \in Email : AdminGetUser(r, t, u, e)
          \/ \E n \in Name, d \in DomainID : CreateDomain(r, t, n, d)
          \/ \E d \in DomainID : DeleteDomain(r, t, d)

Next ==
    \/ \E r \in Request : Statement(r) \/ Arrival(r)
    \/ \E t \in tokens, u \in UserID : AdminDeleteUser(t, u)

Spec == Init /\ [][Next]_vars

-----------------------------------------------------------------------------
(* Properties.                                                             *)

\* The tables hold rows of their types, addresses and domain names are unique,
\* credentials exist only for rows of users, and every id in use was drawn.
TypeOK ==
    /\ DOMAIN users \subseteq UserID /\ users \in [DOMAIN users -> Row]
    /\ DOMAIN domains \subseteq DomainID /\ domains \in [DOMAIN domains -> DomainRow]
    /\ \A u, v \in DOMAIN users : users[u].email = users[v].email => u = v
    /\ \A c, d \in DOMAIN domains : domains[c].name = domains[d].name => c = d
    /\ creds \subseteq DOMAIN users
    /\ used \subseteq UserID \cup DomainID
    /\ DOMAIN users \cup DOMAIN domains \cup deleted \subseteq used
    /\ tokens \subseteq Claims
    /\ req \in [Request -> Progress]
    /\ lookupFailed \in BOOLEAN
    /\ credsFailed \subseteq UserID /\ deleted \subseteq UserID

\* An account without credentials, which nobody can log in to and whose
\* address nobody can register again, is one still being registered, one
\* whose INSERT of the credentials failed, or the late consequence of a failed
\* lookup or of a deletion: registration is two INSERTs without a transaction,
\* followed by a lookup that creates a second row when it misses the first.
StrandedNeedsFault ==
    \A u \in DOMAIN users \ creds :
        \/ \E r \in Request : req[r].pc = "insertCreds" /\ req[r].user = u
        \/ u \in credsFailed
        \/ lookupFailed
        \/ deleted # {}

\* A token names the account whose password (registration, older token) was
\* presented for it, although the handler looks the account up three times by
\* three different keys, unless such a lookup failed or an account was deleted:
\* either can leave a provider id on the wrong row, and later, undisturbed
\* logins then follow it.
TokenNamesItsAccount ==
    \A t \in tokens \ MintedElsewhere :
        \/ t.user = t.via
        \/ lookupFailed
        \/ deleted # {}

\* Tokens outlive accounts, but the owner of a token whose account is gone
\* sees no domain and gets none, and no API key of a domain is accepted whose
\* owner is gone, even when a CreateDomain was on its way during the deletion;
\* nor does an edit that had read the account before bring it back.
DeletedAccountIsSilent ==
    /\ \A t \in tokens : RequireAuth(t) /\ Me(t) = 404 =>
          GetDomains(t) = {} /\ \A d \in DomainID : 200 \notin Answers(t, d)
    /\ \A d \in DomainID, n \in Name :
          SendEmail(d, n) = 202 => domains[d].owner \in DOMAIN users
    /\ ListUsers \cap deleted = {}
    /\ \A t \in tokens, u \in deleted : GetUser(t, u) # 200

=============================================================================
