----------------------------- MODULE InboundMail -----------------------------
(***************************************************************************)
(* Receiving mail for one domain: SMTP sessions (app/smtp/session.go), the *)
(* email use case (domain/email), the API handlers for addresses and       *)
(* received mail (app/api/v1/emails) and their tables.                     *)
(*                                                                         *)
(* Sessions run side by side and share nothing but the database; every     *)
(* step of one is a statement, a call of the verifier or an answer.  Data  *)
(* answers 250 whatever became of the recipients.  Requests that are       *)
(* refused, and reads of the API, change nothing and are stuttering steps. *)
(***************************************************************************)
EXTENDS Verification

CONSTANTS
    Session,      \* SMTP sessions
    Local,        \* local parts, as senders write them
    Lower,        \* strings.ToLower on local parts
    Addr,         \* email_addresses ids; an id is used once
    PublicKey,    \* non-empty texts an owner may give as the domain's public key
    MaxMail,      \* bound: recipients, all messages together
    MaxRcpt       \* bound: recipients of a message

ASSUME LowerAssumption ==
    Lower \in [Local -> Local] /\ \A l \in Local : Lower[Lower[l]] = Lower[l]
ASSUME PublicKeyAssumption ==
    PublicKey \subseteq [prefix : BOOLEAN, length : Nat, digits : Nat, pair : STRING]
ASSUME MailBoundAssumption == MaxMail \in Nat /\ MaxRcpt \in Nat \ {0}

VARIABLES
    domain,       \* the domain's row: its status, auto_create_address and public_key
    addr,         \* email_addresses
    mail,         \* received_emails: the address and the sequence number of each
    body,         \* encrypted_body of each
    ever,         \* history: what was ever in received_emails
    session,      \* where each session is, and what it holds
    tasks,        \* goroutines a stored message has left running
    seen,         \* history: the public keys the domain has had since the session read its row
    during,       \* history: for each mail, those keys of the session that stored it
    excused,      \* history: sessions that were wrongly told their recipient has no
                  \* address, or lost a statement, or saw somebody create that address
                  \* before them, delete it, store mail there, or delete the domain
    count         \* recipients so far

vars == <<domain, addr, mail, body, ever, session, tasks, seen, during, excused, count>>

Absent == [local |-> "absent"]
Gone   == [local |-> "gone"]

Address == [local : Local, forwarding : BOOLEAN]

\* GetByID.
Live(a) == addr[a] \notin {Absent, Gone}

\* GetEmailAddressesByDomainID.
GetByDomainID == {a \in Addr : Live(a)}

Crypto == INSTANCE Encryption

\* CreateDomain takes a public key that can be parsed.
AcceptedKey == {k \in PublicKey : Crypto!ParsePublicKey(k) # Crypto!Error}

MailId == [addr : Addr, seq : Nat \ {0}]

\* A body is told apart by the recipient its sender wrote.
Letter(l) == [to |-> l]

Sealed == {Crypto!encryptEmailBody(Letter(l), k) : l \in Local, k \in PublicKey} \ {Crypto!Error}

\* A session between commands; one that has a copy of the domain's row, of which it
\* uses auto_create_address and public_key; one that has the address, the copy of its
\* row and, at the INSERT, the sequence number and the sealed body.
Idle == [at |-> "idle", todo |-> <<>>]

Recipients == UNION {[1..n -> Local] : n \in 1..MaxRcpt}

SessionState ==
    {Idle}
       \cup [at : {"domain"}, todo : Recipients]
       \cup [at : {"verify", "address", "create"}, todo : Recipients, auto : BOOLEAN, key : PublicKey]
       \cup [at : {"store"}, todo : Recipients, key : PublicKey, addr : Addr, copy : Address]
       \cup [at : {"insert"}, todo : Recipients, key : PublicKey, addr : Addr, copy : Address,
              seq : Nat \ {0}, body : Sealed]
       \cup [at : {"lost"}, todo : Recipients, key : PublicKey]

TypeOK ==
    /\ domain \in [status : {"pending", "verified", "gone"}, auto : BOOLEAN, key : PublicKey]
    /\ addr \in [Addr -> Address \cup {Absent, Gone}]
    /\ mail \subseteq MailId /\ ever \subseteq MailId /\ mail \subseteq ever
    /\ body \in [mail -> Sealed] /\ during \in [mail -> SUBSET PublicKey]
    /\ seen \in [Session -> SUBSET PublicKey]
    /\ session \in [Session -> SessionState]
    /\ tasks \subseteq [mail : MailId, forward : BOOLEAN]
    /\ excused \subseteq Session
    /\ count \in 0..MaxMail

Init ==
    /\ domain \in [status : {"pending"}, auto : {FALSE}, key : AcceptedKey]
    /\ addr = [a \in Addr |-> Absent]
    /\ mail = {} /\ ever = {} /\ tasks = {} /\ excused = {}
    /\ body = [m \in {} |-> {}] /\ during = [m \in {} |-> {}]
    /\ session = [s \in Session |-> Idle]
    /\ seen = [s \in Session |-> {}]
    /\ count = 0

-----------------------------------------------------------------------------
(* Sessions.                                                               *)

Become(s, r) == session' = [session EXCEPT ![s] = r]

Todo(s) == session[s].todo
Recipient(s) == Head(Todo(s))

At(s, label) == session[s].at = label

\* The session after processEmail: Data turns to the next recipient or, after the
\* last, answers 250; Reset follows.
After(s) == IF Len(Todo(s)) > 1 THEN [at |-> "domain", todo |-> Tail(Todo(s))] ELSE Idle

\* processEmail has returned, with or without an error.
Settle(s) ==
    /\ Become(s, After(s))
    /\ seen' = [seen EXCEPT ![s] = {}]
    /\ excused' = excused \ {s}

\* A message that passed every check is not stored: Data logs the error and turns to
\* the next recipient all the same.
Drop(s) ==
    /\ Become(s, [at |-> "lost", todo |-> Todo(s), key |-> session[s].key])
    /\ seen' = [seen EXCEPT ![s] = {}]

\* MAIL FROM, a RCPT TO for each recipient of to, and the body: Mail, Rcpt and Reset
\* only fill and clear fields of the session.
Data(s, to) ==
    /\ At(s, "idle") /\ count + Len(to) <= MaxMail
    /\ Become(s, [at |-> "domain", todo |-> to])
    /\ count' = count + Len(to)
    /\ UNCHANGED <<domain, addr, mail, body, ever, tasks, seen, during, excused>>

\* GetDomainByName and IsVerified.  A failed query is taken for an unknown domain.
GetDomainByName(s) ==
    /\ At(s, "domain")
    /\ \/ /\ domain.status = "verified"
          /\ Become(s, [at |-> "verify", todo |-> Todo(s), auto |-> domain.auto, key |-> domain.key])
          /\ seen' = [seen EXCEPT ![s] = {domain.key}]
          /\ UNCHANGED excused
       \/ Settle(s)
    /\ UNCHANGED <<domain, addr, mail, body, ever, tasks, during, count>>

\* What the verifier may say of a message; it is asked again for every recipient.
Verdicts == UNION {VerifyEmail(DefaultConfig, m) : m \in Message}

\* VerifyEmail and the switch on its action.  IsQuarantined is passed on but nothing
\* is done with it: quarantined mail is stored and forwarded like any other.
Verify(s) ==
    /\ At(s, "verify")
    /\ \E action \in Verdicts :
          \/ /\ action \in {"accept", "quarantine"}
             /\ Become(s, [session[s] EXCEPT !.at = "address"])
             /\ UNCHANGED <<seen, excused>>
          \/ action \in {"reject", "tempfail"} /\ Settle(s)
    /\ UNCHANGED <<domain, addr, mail, body, ever, tasks, during, count>>

\* GetByLocalPartAndDomain: the comparison is exact.
Found(l) == {a \in Addr : Live(a) /\ addr[a].local = l}

GetEmailAddressByAddress_AsWritten(l) == Found(l)

\* GetEmailAddressByAddress looks for the local part in lower case.
GetEmailAddressByAddress(l) == Found(Lower[l])

\* processEmail looks the address up.  Any error, a failed query too, is taken for
\* "not found", and what is not found is created or refused.  An address is missed when
\* the query for it fails.
LookUp(s) ==
    LET known == GetEmailAddressByAddress(Recipient(s)) IN
    /\ At(s, "address")
    /\ \/ /\ \E a \in known :
                Become(s, [at |-> "store", todo |-> Todo(s), key |-> session[s].key,
                           addr |-> a, copy |-> addr[a]])
          /\ UNCHANGED <<seen, excused>>
       \/ /\ session[s].auto
          /\ Become(s, [session[s] EXCEPT !.at = "create"])
          /\ excused' = IF known # {} THEN excused \cup {s} ELSE excused
          /\ UNCHANGED seen
       \/ ~session[s].auto /\ known = {} /\ Settle(s)
       \/ ~session[s].auto /\ known # {} /\ Drop(s) /\ excused' = excused \cup {s}
    /\ UNCHANGED <<domain, addr, mail, body, ever, tasks, during, count>>

Insertable_NotUnique(l) == domain.status # "gone"

\* The INSERT into email_addresses: UNIQUE (domain_id, local_part), and the domain.
Insertable(l) == domain.status # "gone" /\ Found(l) = {}

InsertAddress(a, l, forwarding) ==
    /\ addr[a] = Absent
    /\ addr' = [addr EXCEPT ![a] = [local |-> l, forwarding |-> forwarding]]

\* The sessions that are about to create an address for l.
Creating(l) == {t \in Session : session[t].at = "create" /\ Recipient(t) = l}

\* CreateEmailAddress, for a recipient with no address.  The local part is stored as
\* the sender wrote it.  A row that cannot be inserted is answered with 451, which
\* Data swallows.
CreateEmailAddress(s) ==
    /\ At(s, "create")
    /\ \/ /\ Insertable(Recipient(s))
          /\ \E a \in Addr :
                /\ InsertAddress(a, Recipient(s), FALSE)
                /\ Become(s, [at |-> "store", todo |-> Todo(s), key |-> session[s].key,
                              addr |-> a, copy |-> addr'[a]])
          /\ excused' = excused \cup (Creating(Recipient(s)) \ {s})
          /\ UNCHANGED seen
       \/ ~Insertable(Recipient(s)) /\ Drop(s) /\ UNCHANGED <<addr, excused>>
       \/ Drop(s) /\ excused' = excused \cup {s} /\ UNCHANGED addr      \* the database fails
    /\ UNCHANGED <<domain, mail, body, ever, tasks, during, count>>

Sequence(a) == {m.seq : m \in {m \in mail : m.addr = a}}

\* The trigger set_received_email_sequence, which sees committed rows only.
NextSequence(a) == IF Sequence(a) = {} THEN 1 ELSE Max(Sequence(a)) + 1

encryptEmailBody_Reread(s) == Crypto!encryptEmailBody(Letter(Recipient(s)), domain.key)

\* The body of the session's message, sealed with the public key of the copy of the
\* domain's row that it has had since GetDomainByName.
encryptEmailBody(s) == Crypto!encryptEmailBody(Letter(Recipient(s)), session[s].key)

\* encryptEmailBody and ProcessIncomingEmail as far as the trigger of its INSERT.  The
\* key may be too short to encrypt with, or no key at all; the message is lost then.
Encrypt(s) ==
    /\ At(s, "store")
    /\ \/ /\ encryptEmailBody(s) # Crypto!Error
          /\ Become(s, [at |-> "insert", todo |-> Todo(s), key |-> session[s].key,
                        addr |-> session[s].addr, copy |-> session[s].copy,
                        seq |-> NextSequence(session[s].addr), body |-> encryptEmailBody(s)])
          /\ UNCHANGED seen
       \/ encryptEmailBody(s) = Crypto!Error /\ Drop(s)
    /\ UNCHANGED <<domain, addr, mail, body, ever, tasks, during, excused, count>>

HasForwarding(copy) == copy.forwarding

\* What is left to the goroutines for stored mail m: the statistics and, as the copy
\* of the address says, forwarding.  (Webhooks are in WebhookConfigs.)
Started(m, copy) == [mail |-> m, forward |-> HasForwarding(copy)]

\* f with one more argument.
Extended(f, x, y) == [z \in DOMAIN f \cup {x} |-> IF z = x THEN y ELSE f[z]]

InsertMail(m, sealed, keys) ==
    /\ mail' = mail \cup {m}
    /\ ever' = ever \cup {m}
    /\ body' = Extended(body, m, sealed)
    /\ during' = Extended(during, m, keys)

\* The INSERT into received_emails: unique (email_address_id, sequence_number), and the
\* address must exist.  Only then do the goroutines start.
ProcessIncomingEmail(s) ==
    LET m == [addr |-> session[s].addr, seq |-> session[s].seq]
        fits == Live(m.addr) /\ m \notin mail
    IN
    /\ At(s, "insert")
    /\ \/ /\ fits
          /\ InsertMail(m, session[s].body, seen[s])
          /\ tasks' = tasks \cup {Started(m, session[s].copy)}
          /\ Become(s, After(s))
          /\ seen' = [seen EXCEPT ![s] = {}]
          /\ excused' = (excused \cup {t \in Session \ {s} :
                            session[t].at = "insert" /\ session[t].addr = m.addr}) \ {s}
       \/ ~fits /\ Drop(s) /\ UNCHANGED <<mail, body, ever, tasks, during, excused>>
       \/ /\ Drop(s)      \* the database fails
          /\ excused' = excused \cup {s}
          /\ UNCHANGED <<mail, body, ever, tasks, during>>
    /\ UNCHANGED <<domain, addr, count>>

\* Data goes on after a message it has lost; the answer is 250 all the same.
Lose(s) ==
    /\ At(s, "lost")
    /\ Settle(s)
    /\ UNCHANGED <<domain, addr, mail, body, ever, tasks, during, count>>

-----------------------------------------------------------------------------
(* The goroutines of a stored message.                                     *)

\* RecordVerificationResult and, if asked for, ForwardEmail run, with success or not:
\* nothing is tried again.
RunTask(t) ==
    /\ t \in tasks
    /\ tasks' = tasks \ {t}
    /\ UNCHANGED <<domain, addr, mail, body, ever, session, seen, during, excused, count>>

-----------------------------------------------------------------------------
(* The API.                                                                *)

\* CreateEmailAddressFromInput: the check for a duplicate, a read of its own, adds
\* nothing to what the INSERT refuses.  The local part is stored in lower case.
CreateEmailAddressFromInput(l, forwarding) ==
    /\ Insertable(Lower[l])
    /\ \E a \in Addr : InsertAddress(a, Lower[l], forwarding)

PostEmailAddress(l, forwarding) ==
    /\ CreateEmailAddressFromInput(l, forwarding)
    /\ excused' = excused \cup Creating(Lower[l])
    /\ UNCHANGED <<domain, mail, body, ever, session, tasks, seen, during, count>>

\* The UPDATE writes the whole row, but nothing else of it ever changes.
UpdateAddress(a, r) == Live(a) /\ addr' = [addr EXCEPT ![a] = r]

UpdateEmailAddress(a, forwarding) ==
    /\ Live(a) /\ HasForwarding(addr[a]) # forwarding
    /\ UpdateAddress(a, [addr[a] EXCEPT !.forwarding = forwarding])

PutEmailAddress(a, forwarding) ==
    /\ UpdateEmailAddress(a, forwarding)
    /\ UNCHANGED <<domain, mail, body, ever, session, tasks, seen, during, excused, count>>

\* The DELETE fails while received mail refers to the address.
DeleteAddress(a) ==
    /\ Live(a) /\ Sequence(a) = {}
    /\ addr' = [addr EXCEPT ![a] = Gone]

\* A session that has the address of its recipient.
Holds(s, a) == session[s].at \in {"store", "insert"} /\ session[s].addr = a

DeleteEmailAddress(a) ==
    /\ DeleteAddress(a)
    /\ excused' = excused \cup {t \in Session : Holds(t, a)}
    /\ UNCHANGED <<domain, mail, body, ever, session, tasks, seen, during, count>>

DeleteMail(m) ==
    /\ m \in mail /\ mail' = mail \ {m}
    /\ body' = [n \in mail \ {m} |-> body[n]]
    /\ during' = [n \in mail \ {m} |-> during[n]]

\* DeleteReceivedEmail, for the owner: its reads, which find the address and the
\* domain, are of rows that cannot go while the mail is there.
DeleteReceivedEmail(m) ==
    /\ DeleteMail(m)
    /\ UNCHANGED <<domain, addr, ever, session, tasks, seen, excused, count>>

\* The sessions that have read the domain's row and are not done with their recipient.
Working == {t \in Session : session[t].at \in {"verify", "address", "create", "store", "insert"}}

\* The domain's row is written: UpdateDomain stores auto_create_address and whatever
\* text the owner's PUT gives as public_key, not empty but never parsed, and writes back
\* the status, which domain validation changes (DomainValidation).
SetDomain(d) ==
    /\ domain.status # "gone" /\ domain # d
    /\ domain' = d
    /\ seen' = [t \in Session |-> IF seen[t] = {} THEN {} ELSE seen[t] \cup {d.key}]
    /\ UNCHANGED <<addr, mail, body, ever, session, tasks, during, excused, count>>

\* The DELETE takes the addresses with it and fails while there is mail.
DeleteDomain ==
    /\ domain.status # "gone" /\ mail = {}
    /\ domain' = [domain EXCEPT !.status = "gone"]
    /\ addr' = [a \in Addr |-> IF Live(a) THEN Gone ELSE addr[a]]
    /\ excused' = excused \cup Working
    /\ UNCHANGED <<mail, body, ever, session, tasks, seen, during, count>>

-----------------------------------------------------------------------------
SessionStep(s) ==
    \/ \E to \in Recipients : Data(s, to)
    \/ GetDomainByName(s)
    \/ Verify(s)
    \/ LookUp(s)
    \/ CreateEmailAddress(s)
    \/ Encrypt(s)
    \/ ProcessIncomingEmail(s)
    \/ Lose(s)

Owner ==
    \/ \E l \in Local, f \in BOOLEAN : PostEmailAddress(l, f)
    \/ \E a \in Addr, f \in BOOLEAN : PutEmailAddress(a, f)
    \/ \E a \in Addr : DeleteEmailAddress(a)
    \/ \E m \in mail : DeleteReceivedEmail(m)
    \/ \E d \in [status : {"pending", "verified"}, auto : BOOLEAN, key : PublicKey] : SetDomain(d)
    \/ DeleteDomain

Next ==
    \/ \E s \in Session : SessionStep(s)
    \/ \E t \in tasks : RunTask(t)
    \/ Owner

Spec == Init /\ [][Next]_vars

-----------------------------------------------------------------------------
(* Correctness.                                                            *)

\* The private key that goes with public key k.
PrivateKey(k) == [size |-> Crypto!KeySize, pair |-> k.pair]

\* Every stored message belongs to an address of the domain and, however often the owner
\* replaced the domain's key by whatever text, opens with the private key of a public
\* key that was the domain's while the message was being received, and what it opens to
\* was sent to that address; no two addresses have the same local part.
StorageConsistent ==
    /\ \A m \in mail :
          /\ Live(m.addr)
          /\ \E k \in during[m] :
                LET text == Crypto!GetParsedReceivedEmail(body[m], PrivateKey(k))
                IN text # Crypto!Error /\ Lower[text.to] = Lower[addr[m.addr].local]
    /\ \A a, b \in GetByDomainID : addr[a].local = addr[b].local => a = b

\* An address that a session created with a capital letter in it holds one message at
\* most, for good: the next message looks for it in lower case, does not find it, and
\* fails to create it a second time.
MixedCaseHoldsOneMail ==
    \A a \in Addr :
       Live(a) /\ Lower[addr[a].local] # addr[a].local
          => \A m, n \in ever : m.addr = a /\ n.addr = a => m = n

\* A message to a lower-case recipient that passed every check is lost, although it was
\* answered with 250, only if its session came between somebody who created, deleted or
\* wrote to its address, or one of its statements failed, or the public key it read with
\* the domain's row cannot encrypt.
LossNeedsRival ==
    \A s \in Session :
       session[s].at = "lost" /\ Lower[Recipient(s)] = Recipient(s)
          => \/ s \in excused
             \/ Crypto!encryptEmailBody(Letter(Recipient(s)), session[s].key) = Crypto!Error

\* When a session asks the verifier, SPF says "pass" only if a record that the From
\* domain takes in through its includes authorises the sender, and the header that
\* will be stored claims dmarc=pass only beside a claim that backs it
\* (PassesAreAuthorised).
PassIsAuthorised == \A s \in Session : session[s].at = "verify" => PassesAreAuthorised

\* When a session asks the verifier, a message that SPF and DKIM vouch for and whose
\* sender is on no list is neither quarantined nor deferred, whatever it says
\* (GoodSendersAreAccepted).
GoodSenderIsAccepted == \A s \in Session : session[s].at = "verify" => GoodSendersAreAccepted
=============================================================================
